---- MODULE Spec2Model ----
(***************************************************************************)
(* Model of the fractal (pivot) tracker of innTall/sweep:                  *)
(*   modules/fractals.py      detect_fractals                              *)
(*   core/fractal_storage.py  init_full_scan, update_storage,              *)
(*                            handle_htf_match                             *)
(*   modules/breakouts.py     check_breakouts                              *)
(* Prices are integers (the code only compares them); close times are      *)
(* integers.                                                               *)
(***************************************************************************)
EXTENDS Integers, Sequences, FiniteSets, TLC

VARIABLES
    storage,         \* symbol -> interval -> [H, L]: the dict of fractal_storage.py
    candles,         \* the candle batch fetched for the operation in hand
    fractal_window,  \* config["fractal_window"]
    pc,              \* the last step taken
    detected,        \* <<active_H, active_L>> returned by detect_fractals
    prev,            \* the storage before the last storage operation
    args,            \* arguments and result of the last storage operation
    scan,            \* init_full_scan: the storage dict being built
    todo,            \* init_full_scan: the (symbol, interval) pairs still to fetch
    ops,             \* number of candle fetches begun
    tracked,         \* a stored pivot an update_storage call removed as broken
    H_fractals,      \* check_breakouts: the active High pivots passed in
    L_fractals,      \* check_breakouts: the active Low pivots passed in
    candle,          \* check_breakouts: the last confirmed candle
    breakout,        \* check_breakouts: the returned breakout dict, or NoBreakout
    meta,            \* storage["metadata"] as load_storage returned it
    env,             \* what the scan-mode decision reads besides the metadata
    plan,            \* the scan-mode decision taken, per entry point
    storage_ref,     \* run_fractal_detection: what its local name storage is bound to
    log              \* run_fractal_detection: the calls made so far, in order

storeVars == <<storage, prev, args, scan, todo, ops, tracked>>
breakVars == <<H_fractals, L_fractals, candle, breakout>>
planVars == <<meta, env, plan>>
cycleVars == <<storage_ref, log>>
otherVars == <<planVars, cycleVars>>
vars == <<candles, fractal_window, pc, detected, storeVars, breakVars, otherVars>>

----------------------------------------------------------------------------
(* Bounds *)

MaxTime == 4        \* close times are 1..MaxTime
MaxPrice == 3       \* prices are 1..MaxPrice
MaxLen == 4         \* longest candle batch

Times == 1..MaxTime
Prices == 1..MaxPrice

\* config["fractal_window"]: odd, >= 3
Windows == {3, 5}

----------------------------------------------------------------------------
(* Python list and dict helpers *)

Min(a, b) == IF a < b THEN a ELSE b

\* seq[a:b] for 0-based a, b >= 0: Python clamps the bounds to the length
Slice(seq, a, b) == SubSeq(seq, Min(a, Len(seq)) + 1, Min(b, Len(seq)))

\* [x for x in seq if Keep(x)]
Filter(seq, Keep(_)) == SelectSeq(seq, Keep)

\* list.sort(key=...): stable. Before(a, b) is "a's key sorts strictly before
\* b's"; elements with equal keys keep their original order (for
\* reverse=True too: Python keeps the original order of equal elements).
StableSort(seq, Before(_, _)) ==
    LET n == Len(seq)
        rank(i) == Cardinality({j \in 1..n :
                        \/ Before(seq[j], seq[i])
                        \/ (~Before(seq[i], seq[j]) /\ j < i)}) + 1
    IN  [r \in 1..n |-> seq[CHOOSE i \in 1..n : rank(i) = r]]

\* list.sort(key=..., reverse=True); Gt(a, b) is key(a) > key(b)
SortDesc(seq, Gt(_, _)) == StableSort(seq, Gt)

\* list.sort(key=...); Lt(a, b) is key(a) < key(b)
SortAsc(seq, Lt(_, _)) == StableSort(seq, Lt)

EmptyDict == [k \in {} |-> 0]

\* d[k] = v
Put(d, k, v) == [x \in (DOMAIN d) \cup {k} |-> IF x = k THEN v ELSE d[x]]

----------------------------------------------------------------------------
(* modules/candles.py, core/fractal_storage.py: candle normalisation *)

\* candles.sort(key=lambda c: int(c["close_time"]))
SortByCloseTime(cs) == SortAsc(cs, LAMBDA a, b : a.close_time < b.close_time)

\* modules/candles.py normalize_candles: close_time is present already
\* (get_candles sets it), so only the ascending sort acts
normalize_candles(cs) == SortByCloseTime(cs)

----------------------------------------------------------------------------
(* modules/fractals.py *)

HFractal(c) == [type |-> "HFractal", time |-> c.close_time, high |-> c.high]
LFractal(c) == [type |-> "LFractal", time |-> c.close_time, low |-> c.low]

\* key=lambda x: (x["time"], x["high"]), compared as tuples
KeyGtH(a, b) == a.time > b.time \/ (a.time = b.time /\ a.high > b.high)
\* mutant: key=lambda x: (x["time"], x["low"])
KeyGtL_NoNeg(a, b) == a.time > b.time \/ (a.time = b.time /\ a.low > b.low)

\* key=lambda x: (x["time"], -x["low"])
KeyGtL(a, b) == a.time > b.time \/ (a.time = b.time /\ (0 - a.low) > (0 - b.low))

\* mutant: the "if c["close_time"] > f["time"]" filter forgotten
BrokenH_AnyTime(f, cs) == \E k \in 1..Len(cs) : cs[k].high > f.high

\* any(c["high"] > f["high"] for c in candles if c["close_time"] > f["time"])
BrokenH(f, cs) ==
    \E k \in 1..Len(cs) : cs[k].close_time > f.time /\ cs[k].high > f.high
\* any(c["low"] < f["low"] for c in candles if c["close_time"] > f["time"])
BrokenL(f, cs) ==
    \E k \in 1..Len(cs) : cs[k].close_time > f.time /\ cs[k].low < f.low

\* left + right of the 0-based index i
Neighbours(cs, i, n) == Slice(cs, i - n, i) \o Slice(cs, i + 1, i + n + 1)

\* mutant: range(n, len(candles)), the right margin forgotten
CandidateIdx_NoRightMargin(cs, n) ==
    IF Len(cs) <= n THEN <<>>
    ELSE [k \in 1..(Len(cs) - n) |-> n + k - 1]

\* range(n, len(candles) - n) as a list of 0-based indices
CandidateIdx(cs, n) ==
    IF Len(cs) - n <= n THEN <<>>
    ELSE [k \in 1..(Len(cs) - 2 * n) |-> n + k - 1]

\* mutant: ">=" for ">" in the High test
IsLocalHigh_Ge(cs, i, n) ==
    LET mid == cs[i + 1]
        nb == Neighbours(cs, i, n)
    IN  \A k \in 1..Len(nb) : mid.high >= nb[k].high

IsLocalHigh(cs, i, n) ==
    LET mid == cs[i + 1]
        nb == Neighbours(cs, i, n)
    IN  \A k \in 1..Len(nb) : mid.high > nb[k].high

IsLocalLow(cs, i, n) ==
    LET mid == cs[i + 1]
        nb == Neighbours(cs, i, n)
    IN  \A k \in 1..Len(nb) : mid.low < nb[k].low

\* mutant: the "keep only active fractals" step forgotten
detect_fractals_NoActivity(cs, window) ==
    LET n == (window - 1) \div 2
        idx == CandidateIdx(cs, n)
        hIdx == Filter(idx, LAMBDA i : IsLocalHigh(cs, i, n))
        lIdx == Filter(idx, LAMBDA i : IsLocalLow(cs, i, n))
        H_all == [k \in 1..Len(hIdx) |-> HFractal(cs[hIdx[k] + 1])]
        L_all == [k \in 1..Len(lIdx) |-> LFractal(cs[lIdx[k] + 1])]
    IN  <<SortDesc(H_all, KeyGtH), SortDesc(L_all, KeyGtL)>>

detect_fractals(cs, window) ==
    LET n == (window - 1) \div 2
        idx == CandidateIdx(cs, n)
        hIdx == Filter(idx, LAMBDA i : IsLocalHigh(cs, i, n))
        lIdx == Filter(idx, LAMBDA i : IsLocalLow(cs, i, n))
        H_all == [k \in 1..Len(hIdx) |-> HFractal(cs[hIdx[k] + 1])]
        L_all == [k \in 1..Len(lIdx) |-> LFractal(cs[lIdx[k] + 1])]
        active_H == Filter(H_all, LAMBDA f : ~BrokenH(f, cs))
        active_L == Filter(L_all, LAMBDA f : ~BrokenL(f, cs))
    IN  <<SortDesc(active_H, KeyGtH), SortDesc(active_L, KeyGtL)>>

----------------------------------------------------------------------------
(* Pure detection: detect_fractals applied to a fetched batch *)

\* prices of one candle: <<high, low>> with low <= high
Shapes == {s \in Prices \X Prices : s[2] <= s[1]}

\* the i-th smallest element of a set of integers
Nth(S, i) == CHOOSE t \in S : Cardinality({u \in S : u < t}) = i - 1

\* the batch with close times ts (ascending, as the exchange returns them and
\* every caller sorts them) and prices sh
Batch(ts, sh) ==
    [i \in 1..Cardinality(ts) |->
        [close_time |-> Nth(ts, i), high |-> sh[i][1], low |-> sh[i][2]]]

TimeSets == {ts \in SUBSET Times : Cardinality(ts) <= MaxLen}

NoStorage == EmptyDict
NoArgs == [op |-> "none"]
NoTrack == [side |-> "none"]
NoCandle == [timestamp |-> 0, high |-> 0, low |-> 0, close |-> 0]
NoBreakout == [type |-> "none"]

\* the variables a specification does not use keep these values
StoreIdle ==
    /\ storage = NoStorage
    /\ prev = NoStorage
    /\ args = NoArgs
    /\ scan = NoStorage
    /\ todo = <<>>
    /\ ops = 0
    /\ tracked = NoTrack

BreakIdle ==
    /\ H_fractals = <<>>
    /\ L_fractals = <<>>
    /\ candle = NoCandle
    /\ breakout = NoBreakout

\* a metadata value that is null (Python None)
Null == [kind |-> "null"]

\* load_storage's metadata when no file exists
NoMeta == [last_full_scan |-> Null, last_candle_close_time |-> Null]
NoEnv == [now |-> 0, config_mtime |-> Null]
NoPlan == [ensure_storage |-> "none", runner_loop |-> "none"]

PlanIdle ==
    /\ meta = NoMeta
    /\ env = NoEnv
    /\ plan = NoPlan

CycleIdle ==
    /\ storage_ref = "dict"
    /\ log = <<>>

OtherIdle == PlanIdle /\ CycleIdle

InitDetect ==
    /\ \E ts \in TimeSets : \E sh \in [1..Cardinality(ts) -> Shapes] :
          candles = Batch(ts, sh)
    /\ fractal_window \in Windows
    /\ pc = "fetched"
    /\ detected = <<>>
    /\ StoreIdle
    /\ BreakIdle
    /\ OtherIdle

DetectFractals ==
    /\ pc = "fetched"
    /\ detected' = detect_fractals(candles, fractal_window)
    /\ pc' = "detected"
    /\ UNCHANGED <<candles, fractal_window, storeVars, breakVars, otherVars>>

NextDetect == DetectFractals

SpecDetect == InitDetect /\ [][NextDetect]_vars

----------------------------------------------------------------------------
(* core/fractal_storage.py *)

\* config.json: top_symbols, base_interval, higher_intervals
top_symbols == <<"BTCUSDT">>
base_interval == "15m"
higher_intervals == <<"1h">>
all_intervals == <<base_interval>> \o higher_intervals

Range(seq) == {seq[i] : i \in 1..Len(seq)}

\* mutant: the "if not any(existing ...)" test forgotten
AppendNew_NoDedup(list, new, side) == list \o new

\* for f in new: if not any(existing == f by (time, value)): list.append(f)
RECURSIVE AppendNew(_, _, _)
AppendNew(list, new, side) ==
    IF new = <<>> THEN list
    ELSE LET f == Head(new)
             dup == \E k \in 1..Len(list) :
                       /\ list[k].time = f.time
                       /\ IF side = "H" THEN list[k].high = f.high
                                        ELSE list[k].low = f.low
         IN  AppendNew(IF dup THEN list ELSE Append(list, f), Tail(new), side)

\* mutant: the stored pivots are kept whether or not the batch breaks them
update_storage_KeepBroken(st, symbol, interval, cs, window) ==
    LET det == detect_fractals(cs, window)
        old == IF symbol \in DOMAIN st
               THEN IF interval \in DOMAIN st[symbol] THEN st[symbol][interval]
                    ELSE [H |-> <<>>, L |-> <<>>]
               ELSE [H |-> <<>>, L |-> <<>>]
        allH == AppendNew(old.H, det[1], "H")
        allL == AppendNew(old.L, det[2], "L")
        st1 == IF symbol \in DOMAIN st THEN st ELSE Put(st, symbol, EmptyDict)
    IN  Put(st1, symbol,
            Put(st1[symbol], interval,
                [H |-> SortDesc(allH, KeyGtH), L |-> SortDesc(allL, KeyGtL)]))

\* mutant: storage[symbol] = {} whether or not the symbol is there
update_storage_ResetSymbol(st, symbol, interval, cs, window) ==
    LET det == detect_fractals(cs, window)
        st1 == Put(st, symbol, EmptyDict)
    IN  Put(st1, symbol,
            Put(st1[symbol], interval, [H |-> det[1], L |-> det[2]]))

update_storage(st, symbol, interval, cs, window) ==
    LET det == detect_fractals(cs, window)
        H_new == det[1]
        L_new == det[2]
        st1 == IF symbol \in DOMAIN st THEN st ELSE Put(st, symbol, EmptyDict)
        st2 == IF interval \in DOMAIN st1[symbol] THEN st1
               ELSE Put(st1, symbol,
                        Put(st1[symbol], interval, [H |-> <<>>, L |-> <<>>]))
        old == st2[symbol][interval]
        keptH == Filter(old.H, LAMBDA f : ~BrokenH(f, cs))
        keptL == Filter(old.L, LAMBDA f : ~BrokenL(f, cs))
        allH == AppendNew(keptH, H_new, "H")
        allL == AppendNew(keptL, L_new, "L")
    IN  Put(st2, symbol,
            Put(st2[symbol], interval,
                [H |-> SortDesc(allH, KeyGtH), L |-> SortDesc(allL, KeyGtL)]))

\* mutant: a value within 1 of fractal_value is removed as well
KeepOnMatch_Near(f, fractal_value) ==
    /\ ~("high" \in DOMAIN f /\ f.high - fractal_value \in {-1, 0, 1})
    /\ ~("low" \in DOMAIN f /\ f.low - fractal_value \in {-1, 0, 1})

\* f.get("high") != fractal_value and f.get("low") != fractal_value
KeepOnMatch(f, fractal_value) ==
    /\ ~("high" \in DOMAIN f /\ f.high = fractal_value)
    /\ ~("low" \in DOMAIN f /\ f.low = fractal_value)

\* the loop of handle_htf_match from higher_intervals[k] on;
\* acc = <<storage, matched_htfs>>
RECURSIVE HtfLoop(_, _, _, _, _)
HtfLoop(acc, symbol, bo, hi, k) ==
    IF k > Len(hi) THEN acc
    ELSE LET st == acc[1]
             interval == hi[k]
             sym == IF symbol \in DOMAIN st THEN st[symbol] ELSE EmptyDict
             ftype == bo.fractal_side
         IN  IF interval \notin DOMAIN sym
             THEN HtfLoop(acc, symbol, bo, hi, k + 1)
             ELSE IF ftype \notin DOMAIN sym[interval]
             THEN HtfLoop(acc, symbol, bo, hi, k + 1)
             ELSE LET before == Len(sym[interval][ftype])
                      left == Filter(sym[interval][ftype],
                                     LAMBDA f : KeepOnMatch(f, bo.fractal_value))
                      st1 == Put(st, symbol,
                                 Put(sym, interval,
                                     [sym[interval] EXCEPT ![ftype] = left]))
                  IN  HtfLoop(<<st1, IF before # Len(left)
                                     THEN Append(acc[2], interval) ELSE acc[2]>>,
                              symbol, bo, hi, k + 1)

\* mutant: every listed interval that has an entry is recorded as matched
handle_htf_match_AllMatched(st, symbol, bo, hi) ==
    <<HtfLoop(<<st, <<>>>>, symbol, bo, hi, 1)[1],
      SelectSeq(hi, LAMBDA i : IF symbol \in DOMAIN st THEN i \in DOMAIN st[symbol]
                                                        ELSE FALSE)>>

handle_htf_match(st, symbol, bo, hi) ==
    HtfLoop(<<st, <<>>>>, symbol, bo, hi, 1)

----------------------------------------------------------------------------
(* The storage machine: fetches, full scans, updates, HTF matches *)

MaxFetches == 2     \* candle fetches in one run of the storage machine
MaxUpdates == 3     \* candle fetches in one run of the update-only machine

\* candles of the storage machines: bars of height 1 (low = high - 1)
Bars == {[close_time |-> t, high |-> h, low |-> h - 1] : t \in Times, h \in Prices}

\* the (symbol, interval) pairs in the order init_full_scan visits them
ScanPairs ==
    [k \in 1..(Len(top_symbols) * Len(all_intervals)) |->
        <<top_symbols[((k - 1) \div Len(all_intervals)) + 1],
          all_intervals[((k - 1) % Len(all_intervals)) + 1]>>]

Init ==
    /\ candles = <<>>
    /\ fractal_window \in Windows
    /\ pc = "idle"
    /\ detected = <<>>
    /\ StoreIdle
    /\ BreakIdle
    /\ OtherIdle

\* get_candles: results = []
FetchBegin(limit) ==
    /\ pc \in {"idle", "scanning"}
    /\ pc = "scanning" => todo # <<>>
    /\ ops < limit
    /\ ops' = ops + 1
    /\ candles' = <<>>
    /\ pc' = IF pc = "idle" THEN "fetching" ELSE "scan_fetching"
    /\ detected' = <<>>
    /\ prev' = NoStorage
    /\ args' = NoArgs
    /\ UNCHANGED <<storage, fractal_window, scan, todo, tracked, breakVars, otherVars>>

BeginFetch == FetchBegin(MaxFetches)

\* get_candles: results.append(candle), the exchange's candles in time order
GetCandle(c) ==
    /\ pc \in {"fetching", "scan_fetching"}
    /\ Len(candles) < MaxLen
    /\ IF candles = <<>> THEN TRUE
       ELSE c.close_time > candles[Len(candles)].close_time
    /\ candles' = Append(candles, c)
    /\ UNCHANGED <<fractal_window, pc, detected, storeVars, breakVars, otherVars>>

\* the caller of update_storage: the batch normalised, then reconciled
UpdateStep(symbol, interval) ==
    /\ pc = "fetching"
    /\ LET cs == normalize_candles(candles)
       IN  /\ storage' = update_storage(storage, symbol, interval, cs, fractal_window)
           /\ detected' = detect_fractals(cs, fractal_window)
    /\ prev' = storage
    /\ args' = [op |-> "update_storage", symbol |-> symbol, interval |-> interval]
    /\ pc' = "idle"
    /\ UNCHANGED <<candles, fractal_window, scan, todo, ops, breakVars, otherVars>>

UpdateStorage(symbol, interval) ==
    /\ UpdateStep(symbol, interval)
    /\ UNCHANGED tracked

\* init_full_scan: storage = {}
FullScanBegin ==
    /\ pc = "idle"
    /\ scan' = EmptyDict
    /\ todo' = ScanPairs
    /\ pc' = "scanning"
    /\ candles' = <<>>
    /\ detected' = <<>>
    /\ prev' = NoStorage
    /\ args' = NoArgs
    /\ UNCHANGED <<storage, fractal_window, ops, tracked, breakVars, otherVars>>

\* storage[symbol] = {} when the symbol's first interval is reached
ScanSymbol(sc, symbol, interval) ==
    IF interval = all_intervals[1] THEN Put(sc, symbol, EmptyDict) ELSE sc

\* init_full_scan: one (symbol, interval) fetched, sorted and detected
FullScanStep ==
    /\ pc = "scan_fetching"
    /\ LET symbol == todo[1][1]
           interval == todo[1][2]
           cs == SortByCloseTime(candles)
           det == detect_fractals(cs, fractal_window)
           sc == ScanSymbol(scan, symbol, interval)
       IN  /\ scan' = Put(sc, symbol,
                          Put(sc[symbol], interval, [H |-> det[1], L |-> det[2]]))
           /\ detected' = det
    /\ todo' = Tail(todo)
    /\ pc' = "scanning"
    /\ UNCHANGED <<storage, candles, fractal_window, prev, args, ops, tracked, breakVars, otherVars>>

\* init_full_scan: the fetch raised; except Exception: logger.error(...)
FullScanFail ==
    /\ pc = "scanning"
    /\ todo # <<>>
    /\ scan' = ScanSymbol(scan, todo[1][1], todo[1][2])
    /\ todo' = Tail(todo)
    /\ UNCHANGED <<storage, candles, fractal_window, pc, detected, prev, args, ops,
                   tracked, breakVars, otherVars>>

\* init_full_scan returns: storage = init_full_scan(...)
FullScanEnd ==
    /\ pc = "scanning"
    /\ todo = <<>>
    /\ storage' = scan
    /\ prev' = storage
    /\ args' = [op |-> "init_full_scan"]
    /\ scan' = NoStorage
    /\ pc' = "idle"
    /\ UNCHANGED <<candles, fractal_window, detected, todo, ops, tracked, breakVars, otherVars>>

\* storage, matched_htfs = handle_htf_match(storage, symbol, breakout, hi)
HtfMatchStep(symbol, side, value, hi) ==
    /\ LET bo == [fractal_side |-> side, fractal_value |-> value]
           res == handle_htf_match(storage, symbol, bo, hi)
       IN  /\ storage' = res[1]
           /\ args' = [op |-> "handle_htf_match", symbol |-> symbol,
                       breakout |-> bo, higher_intervals |-> hi,
                       matched_htfs |-> res[2]]
    /\ prev' = storage

HandleHtfMatch(symbol, side, value) ==
    /\ pc = "idle"
    /\ HtfMatchStep(symbol, side, value, higher_intervals)
    /\ candles' = <<>>
    /\ detected' = <<>>
    /\ UNCHANGED <<fractal_window, pc, scan, todo, ops, tracked, breakVars, otherVars>>

Next ==
    \/ BeginFetch
    \/ \E c \in Bars : GetCandle(c)
    \/ \E symbol \in Range(top_symbols), interval \in Range(all_intervals) :
          UpdateStorage(symbol, interval)
    \/ FullScanBegin
    \/ FullScanStep
    \/ FullScanFail
    \/ FullScanEnd
    \/ \E symbol \in Range(top_symbols), side \in {"H", "L"}, value \in Prices :
          HandleHtfMatch(symbol, side, value)

Spec == Init /\ [][Next]_vars

----------------------------------------------------------------------------
(* Detection and full scan on a response in which the exchange repeats a   *)
(* close_time                                                              *)

MaxDup == 2         \* extra candles that repeat one close_time of a response

\* seq with the sequence xs inserted after position k
InsertAfter(seq, k, xs) == SubSeq(seq, 1, k) \o xs \o SubSeq(seq, k + 1, Len(seq))

\* prices of one bar of height 1: <<high, low>>
BarShapes == {<<h, h - 1>> : h \in Prices}

\* a response whose k-th close_time is repeated by the candles of shapes ds
DupBatch(ts, sh, k, ds) ==
    LET b == Batch(ts, sh)
    IN  InsertAfter(b, k,
            [j \in 1..Len(ds) |->
                [close_time |-> b[k].close_time, high |-> ds[j][1], low |-> ds[j][2]]])

InitDup ==
    /\ \E ts \in TimeSets : \E sh \in [1..Cardinality(ts) -> BarShapes] :
       \E k \in 1..Cardinality(ts) : \E m \in 1..MaxDup : \E ds \in [1..m -> BarShapes] :
          /\ Cardinality(ts) < MaxLen
          /\ candles = DupBatch(ts, sh, k, ds)
    /\ fractal_window \in Windows
    /\ pc \in {"fetched", "scan_fetching"}
    /\ scan = IF pc = "fetched" THEN NoStorage ELSE EmptyDict
    /\ todo = IF pc = "fetched" THEN <<>> ELSE ScanPairs
    /\ detected = <<>>
    /\ storage = NoStorage
    /\ prev = NoStorage
    /\ args = NoArgs
    /\ ops = 0
    /\ tracked = NoTrack
    /\ BreakIdle
    /\ OtherIdle

NextDup ==
    \/ DetectFractals
    \/ FullScanStep
    \/ FullScanFail
    \/ FullScanEnd

SpecDup == InitDup /\ [][NextDup]_vars

----------------------------------------------------------------------------
(* The update-only machine: successive update_storage calls on the base    *)
(* interval, remembering one stored pivot that a call removed as broken    *)

\* the entry of (symbol, interval), or the empty entry update_storage creates
Entry(st, symbol, interval) ==
    IF symbol \in DOMAIN st
    THEN IF interval \in DOMAIN st[symbol] THEN st[symbol][interval]
         ELSE [H |-> <<>>, L |-> <<>>]
    ELSE [H |-> <<>>, L |-> <<>>]

\* the stored pivots that the call in hand removes as broken by the batch
RemovedAsBroken(symbol, interval) ==
    LET old == Entry(storage, symbol, interval)
        cs == normalize_candles(candles)
    IN  {[side |-> "H", symbol |-> symbol, interval |-> interval,
          time |-> old.H[k].time, value |-> old.H[k].high,
          batch |-> Range(cs), at |-> ops] :
            k \in {j \in 1..Len(old.H) :
                     \E c \in Range(cs) : c.close_time > old.H[j].time
                                          /\ c.high > old.H[j].high}}
        \cup
        {[side |-> "L", symbol |-> symbol, interval |-> interval,
          time |-> old.L[k].time, value |-> old.L[k].low,
          batch |-> Range(cs), at |-> ops] :
            k \in {j \in 1..Len(old.L) :
                     \E c \in Range(cs) : c.close_time > old.L[j].time
                                          /\ c.low < old.L[j].low}}

UpdateBegin == FetchBegin(MaxUpdates)

UpdateTracked(symbol, interval) ==
    /\ UpdateStep(symbol, interval)
    /\ tracked' \in {tracked} \cup
                    (IF tracked = NoTrack THEN RemovedAsBroken(symbol, interval)
                     ELSE {})

NextUpdates ==
    \/ UpdateBegin
    \/ \E c \in Bars : GetCandle(c)
    \/ \E symbol \in Range(top_symbols) : UpdateTracked(symbol, base_interval)

SpecUpdates == Init /\ [][NextUpdates]_vars

----------------------------------------------------------------------------
(* modules/breakouts.py *)

\* config.json interval_map: interval -> seconds
interval_map == [i \in Range(all_intervals) |-> IF i = "15m" THEN 900 ELSE 3600]

\* mutant: the quotient rounded up
IntDiv_RoundUp(x, y) == (x + y - 1) \div y

\* int(x / y) for integers x and y > 0: the quotient truncated towards zero
IntDiv(x, y) == IF x >= 0 THEN x \div y ELSE 0 - ((0 - x) \div y)

\* max(seq, key=...) / min(seq, key=...): the first element no other beats;
\* Beats(a, b) is key(a) > key(b) for max, key(a) < key(b) for min
FirstBest(seq, Beats(_, _)) ==
    seq[CHOOSE k \in 1..Len(seq) :
          /\ \A j \in 1..Len(seq) : ~Beats(seq[j], seq[k])
          /\ \A j \in 1..(k - 1) : \E i \in 1..Len(seq) : Beats(seq[i], seq[j])]

\* mutant: broken_h[0] for max(broken_h, key=...)
TargetH_First(broken_h) == broken_h[1]

\* max(broken_h, key=lambda f: f["high"])
TargetH(broken_h) == FirstBest(broken_h, LAMBDA a, b : a.high > b.high)

\* min(broken_l, key=lambda f: f["low"])
TargetL(broken_l) == FirstBest(broken_l, LAMBDA a, b : a.low < b.low)

BreakoutDict(symbol, interval, type, side, value, f, c, imap) ==
    [symbol |-> symbol, interval |-> interval, type |-> type,
     fractal_side |-> side, fractal_value |-> value, fractal_time |-> f.time,
     candle_high |-> c.high, candle_low |-> c.low, candle_close |-> c.close,
     candle_time |-> c.timestamp,
     distance |-> IntDiv(c.timestamp - f.time, imap[interval] * 1000)]

\* mutant: candle_close >= target_fractal["high"] gives HConfirm
BreakoutH_CloseGe(symbol, interval, Hs, c, imap) ==
    LET broken_h == Filter(Hs, LAMBDA f : c.high > f.high)
    IN  IF broken_h # <<>>
        THEN LET target == TargetH(broken_h)
             IN  BreakoutDict(symbol, interval,
                     IF c.close >= target.high THEN "HConfirm" ELSE "HSweep",
                     "H", target.high, target, c, imap)
        ELSE NoBreakout

\* step 1 of check_breakouts: the HFractals
BreakoutH(symbol, interval, Hs, c, imap) ==
    LET broken_h == Filter(Hs, LAMBDA f : c.high > f.high)
    IN  IF broken_h # <<>>
        THEN LET target == TargetH(broken_h)
             IN  BreakoutDict(symbol, interval,
                     IF c.close > target.high THEN "HConfirm" ELSE "HSweep",
                     "H", target.high, target, c, imap)
        ELSE NoBreakout

\* step 2 of check_breakouts: the LFractals
BreakoutL(symbol, interval, Ls, c, imap) ==
    LET broken_l == Filter(Ls, LAMBDA f : c.low < f.low)
    IN  IF broken_l # <<>>
        THEN LET target == TargetL(broken_l)
             IN  BreakoutDict(symbol, interval,
                     IF c.close < target.low THEN "LConfirm" ELSE "LSweep",
                     "L", target.low, target, c, imap)
        ELSE NoBreakout

\* mutant: the LFractals checked first
check_breakouts_LowFirst(symbol, interval, Hs, Ls, c, imap) ==
    LET l == BreakoutL(symbol, interval, Ls, c, imap)
    IN  IF l = NoBreakout THEN BreakoutH(symbol, interval, Hs, c, imap) ELSE l

check_breakouts(symbol, interval, Hs, Ls, c, imap) ==
    LET h == BreakoutH(symbol, interval, Hs, c, imap)
    IN  IF h = NoBreakout THEN BreakoutL(symbol, interval, Ls, c, imap) ELSE h

----------------------------------------------------------------------------
(* Pure breakout evaluation: check_breakouts applied to pivot lists *)

MaxPivots == 2      \* longest active pivot list passed to check_breakouts

\* close time of the k-th base-interval candle, in milliseconds
TickMs(k) == k * interval_map[base_interval] * 1000

ValueLists == UNION {[1..k -> Prices] : k \in 0..MaxPivots}

\* active pivot lists, newest first, one pivot per candle
HList(vs) ==
    [k \in 1..Len(vs) |->
        [type |-> "HFractal", time |-> TickMs(Len(vs) - k + 1), high |-> vs[k]]]
LList(vs) ==
    [k \in 1..Len(vs) |->
        [type |-> "LFractal", time |-> TickMs(Len(vs) - k + 1), low |-> vs[k]]]

\* the last confirmed candle closes after every candle the pivots come from
ConfirmedCandles ==
    {[timestamp |-> TickMs(MaxPivots + 1), high |-> h, low |-> l, close |-> c] :
        h \in Prices, l \in Prices, c \in Prices}

InitBreakout ==
    /\ \E hv \in ValueLists, lv \in ValueLists :
          /\ H_fractals = HList(hv)
          /\ L_fractals = LList(lv)
    /\ candle \in {c \in ConfirmedCandles : c.low <= c.close /\ c.close <= c.high}
    /\ breakout = NoBreakout
    /\ candles = <<>>
    /\ fractal_window \in Windows
    /\ pc = "confirmed"
    /\ detected = <<>>
    /\ StoreIdle
    /\ OtherIdle

CheckBreakouts ==
    /\ pc = "confirmed"
    /\ breakout' = check_breakouts(top_symbols[1], base_interval, H_fractals,
                                   L_fractals, candle, interval_map)
    /\ pc' = "checked"
    /\ UNCHANGED <<candles, fractal_window, detected, storeVars,
                   H_fractals, L_fractals, candle, otherVars>>

NextBreakout == CheckBreakouts

SpecBreakout == InitBreakout /\ [][NextBreakout]_vars

----------------------------------------------------------------------------
(* Breakout distance: one pivot and a later candle whose close times need  *)
(* not be a whole number of intervals apart                                *)

MaxHalfTicks == 6   \* close times are 0..MaxHalfTicks half base intervals

\* a close time, in milliseconds, h half base intervals after time 0
HalfTickMs(h) == (h * interval_map[base_interval] * 1000) \div 2

InitDistance ==
    /\ \E tp \in 0..MaxHalfTicks, v \in Prices, side \in {"H", "L"} :
          /\ H_fractals = IF side = "H"
                THEN <<[type |-> "HFractal", time |-> HalfTickMs(tp), high |-> v]>>
                ELSE <<>>
          /\ L_fractals = IF side = "L"
                THEN <<[type |-> "LFractal", time |-> HalfTickMs(tp), low |-> v]>>
                ELSE <<>>
          /\ \E tc \in (tp + 1)..MaxHalfTicks, h \in Prices, l \in Prices, c \in Prices :
                /\ l <= c /\ c <= h
                /\ candle = [timestamp |-> HalfTickMs(tc), high |-> h, low |-> l,
                             close |-> c]
    /\ breakout = NoBreakout
    /\ candles = <<>>
    /\ fractal_window \in Windows
    /\ pc = "confirmed"
    /\ detected = <<>>
    /\ StoreIdle
    /\ OtherIdle

SpecDistance == InitDistance /\ [][NextBreakout]_vars

----------------------------------------------------------------------------
(* The scan-mode decision at start-up: main.ensure_storage, and            *)
(* runner.runner_loop with StorageManager.startup. Times are in seconds.   *)

history_limit == 100  \* config["history_limit"]
StaleHours == 24      \* timedelta(hours=24)
MaxAgeDays == 2       \* last_full_scan is up to MaxAgeDays days old

\* int(base_interval.rstrip("m")) for the configured base interval
ParseMinutes(interval) == interval_map[interval] \div 60

\* now, later than every time the metadata can hold
NowSec == (MaxAgeDays + 1) * 24 * 3600

\* ages of last_full_scan: whole days, and one second more
FullScanAges == {d * 24 * 3600 + e : d \in 0..MaxAgeDays, e \in {0, 1}}

\* ages of last_candle_close_time around the thresholds the code compares
\* the downtime with: one base interval, history_limit minutes,
\* history_limit base intervals
CandleAges ==
    LET b == ParseMinutes(base_interval) * 60
        h == history_limit * 60
    IN  {0, b - 1, b, b + 1, b + 59, b + 60, h, h + 59, h + 60,
         history_limit * b, history_limit * b + 1}

\* metadata["last_full_scan"]: key absent, null, a string that is no ISO
\* timestamp, or a timestamp
LastFullScans ==
    {[kind |-> k] : k \in {"absent", "null", "unparseable"}}
    \cup {[kind |-> "iso", at |-> NowSec - a] : a \in FullScanAges}

\* metadata["last_candle_close_time"]: null or integer epoch milliseconds
LastCandleTimes ==
    {Null} \cup {[kind |-> "ms", at |-> (NowSec - a) * 1000] : a \in CandleAges}

\* os.path.getmtime("config.json"): failed, or a time
ConfigMtimes ==
    {Null} \cup {[kind |-> "time", at |-> NowSec - a] : a \in {0, 12 * 3600, NowSec}}

\* main.ensure_storage: "FullScan" if force_full, else "Continue"
ensure_storage_plan(m, e) ==
    LET lfs == m.last_full_scan
        lct == m.last_candle_close_time
    IN  IF lfs.kind \in {"absent", "null"} THEN "FullScan"
        ELSE IF lfs.kind = "unparseable" THEN "FullScan"
        ELSE IF e.now - lfs.at > StaleHours * 3600 THEN "FullScan"
        ELSE IF lct.kind = "ms"
        THEN LET gap_seconds == e.now - IntDiv(lct.at, 1000)
             IN  IF gap_seconds > history_limit * ParseMinutes(base_interval) * 60
                 THEN "FullScan" ELSE "Continue"
        ELSE "Continue"

\* mutant: force_full ignored
startup_NoForce(downtime, force_full) ==
    IF downtime.kind = "null" THEN "FullScan"
    ELSE IF downtime.minutes > history_limit THEN "FullScan"
    ELSE IF downtime.minutes > ParseMinutes(base_interval) THEN "RecoveryScan"
    ELSE "Skip"

\* mutant: a downtime of exactly one base interval starts a recovery scan
startup_RecoverAtBase(downtime, force_full) ==
    IF force_full THEN "FullScan"
    ELSE IF downtime.kind = "null" THEN "FullScan"
    ELSE IF downtime.minutes > history_limit THEN "FullScan"
    ELSE IF downtime.minutes >= ParseMinutes(base_interval) THEN "RecoveryScan"
    ELSE "Skip"

\* StorageManager.startup: the branch taken
startup(downtime, force_full) ==
    IF force_full THEN "FullScan"
    ELSE IF downtime.kind = "null" THEN "FullScan"
    ELSE IF downtime.minutes > history_limit THEN "FullScan"
    ELSE IF downtime.minutes > ParseMinutes(base_interval) THEN "RecoveryScan"
    ELSE "Skip"

\* runner.runner_loop up to the start-up call: the branch startup takes, or
\* "Error" if an exception leaves runner_loop before
runner_loop_plan(m, e) ==
    LET lfs == m.last_full_scan
        lct == m.last_candle_close_time
        downtime == IF lct.kind = "ms"
                    THEN [kind |-> "int",
                          minutes |-> IntDiv(e.now - IntDiv(lct.at, 1000), 60)]
                    ELSE Null
        config_newer == IF e.config_mtime.kind = "time" /\ lfs.kind = "iso"
                        THEN e.config_mtime.at > lfs.at ELSE FALSE
        force_full == \/ lfs.kind \in {"absent", "null"}
                      \/ config_newer
                      \/ downtime.kind = "null"
                      \/ (IF downtime.kind = "int"
                          THEN downtime.minutes > history_limit ELSE FALSE)
    IN  IF lfs.kind = "unparseable" THEN "Error"
        ELSE startup(downtime, force_full)

InitPlan ==
    /\ meta \in [last_full_scan : LastFullScans, last_candle_close_time : LastCandleTimes]
    /\ env \in [now : {NowSec}, config_mtime : ConfigMtimes]
    /\ plan = NoPlan
    /\ storage_ref = "dict"
    /\ log = <<>>
    /\ candles = <<>>
    /\ fractal_window \in Windows
    /\ pc = "loaded"
    /\ detected = <<>>
    /\ StoreIdle
    /\ BreakIdle

\* the scan-mode decision, by each entry point
PlanScan ==
    /\ pc = "loaded"
    /\ plan' = [ensure_storage |-> ensure_storage_plan(meta, env),
                runner_loop |-> runner_loop_plan(meta, env)]
    /\ pc' = "planned"
    /\ UNCHANGED <<candles, fractal_window, detected, storeVars, breakVars,
                   meta, env, cycleVars>>

NextPlan == PlanScan

SpecPlan == InitPlan /\ [][NextPlan]_vars

----------------------------------------------------------------------------
(* handle_htf_match on a store of two symbols and three intervals *)

\* the symbols the store holds, and one it does not
StoredSymbols == {"BTCUSDT", "ETHUSDT"}
MatchSymbols == {"BTCUSDT", "XRPUSDT"}

\* the intervals a symbol may have an entry for
StoredIntervals == {"15m", "1h", "4h"}

\* config["higher_intervals"]: one or two higher intervals, in any order
HigherLists ==
    {<<a>> : a \in {"1h", "4h"}} \cup {<<a, b>> : a \in {"1h", "4h"}, b \in {"1h", "4h"}}

\* an entry whose High and Low pivots have the same times and values
EntryOf(vs) == [H |-> HList(vs), L |-> LList(vs)]

InitHtf ==
    /\ \E I \in SUBSET StoredIntervals : \E vs \in [I -> ValueLists] :
          storage = [s \in StoredSymbols \cup {"metadata"} |->
                        IF s = "metadata" THEN NoMeta
                        ELSE [i \in I |-> EntryOf(vs[i])]]
    /\ prev = NoStorage
    /\ args = NoArgs
    /\ scan = NoStorage
    /\ todo = <<>>
    /\ ops = 0
    /\ tracked = NoTrack
    /\ candles = <<>>
    /\ fractal_window \in Windows
    /\ pc = "matching"
    /\ detected = <<>>
    /\ BreakIdle
    /\ OtherIdle

HtfMatchOnce(symbol, side, value, hi) ==
    /\ pc = "matching"
    /\ HtfMatchStep(symbol, side, value, hi)
    /\ pc' = "matched"
    /\ UNCHANGED <<candles, fractal_window, detected, scan, todo, ops, tracked,
                   breakVars, otherVars>>

NextHtf ==
    \E symbol \in MatchSymbols, side \in {"H", "L"}, value \in Prices, hi \in HigherLists :
        HtfMatchOnce(symbol, side, value, hi)

SpecHtf == InitHtf /\ [][NextHtf]_vars

----------------------------------------------------------------------------
(* One processing cycle of main.run_fractal_detection for one symbol on    *)
(* the base interval. log lists the calls the cycle makes, in order.       *)

\* a call the cycle made; ok is FALSE when the callee's work was not done
Call(name, ok) == [call |-> name, ok |-> ok]

\* the exchange's closed base-interval candles, the last confirmed one last
CycleSeries ==
    LET least == CHOOSE w \in Windows : \A u \in Windows : w <= u
    IN  UNION {[1..n -> Prices] : n \in least..(MaxLen + 1)}

\* the candles get_candles returns for a series of highs
CycleBatch(hs) ==
    [i \in 1..Len(hs) |-> [close_time |-> TickMs(i), high |-> hs[i], low |-> hs[i] - 1]]

\* the H list a stored base-interval entry holds: empty, or one pivot from
\* before the fetched history (time 0) or at its second candle
CycleBaseLists ==
    {<<>>} \cup {<<[type |-> "HFractal", time |-> TickMs(t), high |-> v]>> :
                    t \in {0, 2}, v \in Prices}

InitCycle ==
    /\ \E I \in SUBSET Range(all_intervals) :
       \E hs \in CycleBaseLists, v \in Prices :
          storage = [s \in Range(top_symbols) \cup {"metadata"} |->
                        IF s = "metadata" THEN NoMeta
                        ELSE [i \in I |-> IF i = base_interval
                                          THEN [H |-> hs, L |-> <<>>]
                                          ELSE EntryOf(<<v>>)]]
    /\ \E hs \in CycleSeries : candles = CycleBatch(hs)
    /\ prev = NoStorage
    /\ args = NoArgs
    /\ scan = NoStorage
    /\ todo = <<>>
    /\ ops = 0
    /\ tracked = NoTrack
    /\ fractal_window \in Windows
    /\ pc = "cycle"
    /\ detected = <<>>
    /\ BreakIdle
    /\ OtherIdle

\* the fetch of a cycle that raises: none, the last confirmed candle, the
\* base-interval history, or the history of an interval in step 5
FailPoints == {"none", "last_candle", "history"} \cup Range(all_intervals)

\* the calls of a cycle that can raise: a fetch, or the delivery of the alert
RaisePoints == FailPoints \cup {"send_signal"}

\* config["send_messages"]: alerts are delivered
send_messages == TRUE

\* position of an interval in all_intervals
IntervalIndex(interval) == CHOOSE k \in 1..Len(all_intervals) : all_intervals[k] = interval

\* mutant: no cycle is short of history
EnoughHistory_Always(candles_before_last, window) == TRUE

\* the test that lets a cycle go past "Not enough history"
EnoughHistory(candles_before_last, window) == Len(candles_before_last) >= window

\* the body of "for symbol ... for interval in [base_interval]", the last
\* confirmed candle closing at close, the fetch at fail raising
RunFractalDetection(close, fail) ==
    /\ pc = "cycle"
    /\ candles[Len(candles)].low <= close
    /\ close <= candles[Len(candles)].high
    /\ LET symbol == top_symbols[1]
           last == candles[Len(candles)]
           last_candle == [timestamp |-> last.close_time, high |-> last.high,
                           low |-> last.low, close |-> close]
           sorted == normalize_candles(candles)
           candles_before_last ==
               SelectSeq(sorted, LAMBDA c : c.close_time < last_candle.timestamp)
           fetched == <<Call("get_last_confirmed_candle", TRUE),
                        Call("get_candles", TRUE)>>
           caught == <<Call("logger.error", TRUE)>>
       IN  IF fail = "last_candle"
           THEN /\ log' = <<Call("get_last_confirmed_candle", FALSE)>> \o caught
                /\ prev' = storage
                /\ UNCHANGED <<storage, args, breakVars, storage_ref>>
           ELSE
           /\ candle' = last_candle
           /\ IF fail = "history"
              THEN /\ log' = <<Call("get_last_confirmed_candle", TRUE),
                               Call("get_candles", FALSE)>> \o caught
                   /\ prev' = storage
                   /\ UNCHANGED <<storage, args, H_fractals, L_fractals,
                                  breakout, storage_ref>>
              ELSE IF ~EnoughHistory(candles_before_last, fractal_window)
              THEN /\ log' = fetched
                   /\ prev' = storage
                   /\ UNCHANGED <<storage, args, H_fractals, L_fractals,
                                  breakout, storage_ref>>
              ELSE LET det == detect_fractals(candles_before_last, fractal_window)
                       bo == check_breakouts(symbol, base_interval, det[1], det[2],
                                             last_candle, interval_map)
                       \* send_signal is called only for a breakout; when it
                       \* raises, the except clause of the symbol ends the body
                       sent == bo # NoBreakout /\ send_messages
                       undelivered == sent /\ fail = "send_signal"
                       \* step 5 runs for all intervals, or up to the fetch
                       \* that raises
                       updated == IF undelivered THEN 0
                                  ELSE IF fail \in {"none", "send_signal"}
                                  THEN Len(all_intervals)
                                  ELSE IntervalIndex(fail) - 1
                   IN  /\ H_fractals' = det[1]
                       /\ L_fractals' = det[2]
                       /\ breakout' = bo
                       /\ IF bo # NoBreakout
                          THEN HtfMatchStep(symbol, bo.fractal_side,
                                            bo.fractal_value, higher_intervals)
                          ELSE /\ prev' = storage
                               /\ UNCHANGED <<storage, args>>
                       \* update_storage is a coroutine function called
                       \* without await: each call returns a coroutine object
                       \* and its body does not run
                       /\ storage_ref' = IF updated > 0 THEN "coroutine" ELSE "dict"
                       \* save_storage and the log line after it fail on the
                       \* coroutine object; both failures are caught and logged
                       /\ log' = fetched
                                 \o <<Call("detect_fractals", TRUE),
                                      Call("check_breakouts", TRUE)>>
                                 \o (IF bo # NoBreakout
                                     THEN <<Call("handle_htf_match", TRUE)>>
                                     ELSE <<>>)
                                 \o (IF sent
                                     THEN <<Call("send_signal", ~undelivered)>>
                                     ELSE <<>>)
                                 \o [k \in 1..updated |->
                                        Call("update_storage", FALSE)]
                                 \o (IF undelivered THEN <<>>
                                     ELSE IF fail \in {"none", "send_signal"}
                                     THEN <<Call("save_storage", FALSE)>>
                                     ELSE <<Call("get_candles", FALSE)>>)
                                 \o caught
    /\ pc' = "cycle_done"
    /\ UNCHANGED <<candles, fractal_window, detected, scan, todo, ops, tracked,
                   planVars>>

NextCycle ==
    \E close \in 0..MaxPrice, fail \in RaisePoints : RunFractalDetection(close, fail)

SpecCycle == InitCycle /\ [][NextCycle]_vars

----------------------------------------------------------------------------
(* init_full_scan as one call, over two symbols, with the outcome of each  *)
(* fetch drawn from a small set                                            *)

\* the symbols a full scan is asked for, and a symbol no longer configured
ScanSymbols == <<"BTCUSDT", "ETHUSDT">>
RetiredSymbol == "XRPUSDT"

\* for symbol in symbols: for interval in all_intervals
ScanPairsOf(symbols) ==
    [k \in 1..(Len(symbols) * Len(all_intervals)) |->
        <<symbols[((k - 1) \div Len(all_intervals)) + 1],
          all_intervals[((k - 1) % Len(all_intervals)) + 1]>>]

\* what "await get_candles_fn(...)" gives: an exception, or candles with a
\* local high, a local low, or neither
FetchResults ==
    {[ok |-> FALSE, candles |-> <<>>]}
    \cup {[ok |-> TRUE, candles |-> CycleBatch(hs)] :
             hs \in {<<1, 2, 1>>, <<2, 1, 2>>, <<1, 2, 3>>}}

\* mutant: a failed fetch empties the symbol's entries
ScanUnit_DropSymbol(sc, symbol, interval, r, window) ==
    IF r.ok
    THEN LET sc1 == ScanSymbol(sc, symbol, interval)
             det == detect_fractals(SortByCloseTime(r.candles), window)
         IN  Put(sc1, symbol, Put(sc1[symbol], interval, [H |-> det[1], L |-> det[2]]))
    ELSE Put(sc, symbol, EmptyDict)

\* the body of init_full_scan's loops for one (symbol, interval)
ScanUnit(sc, symbol, interval, r, window) ==
    LET sc1 == ScanSymbol(sc, symbol, interval)
    IN  IF r.ok
        THEN LET det == detect_fractals(SortByCloseTime(r.candles), window)
             IN  Put(sc1, symbol,
                     Put(sc1[symbol], interval, [H |-> det[1], L |-> det[2]]))
        ELSE sc1

RECURSIVE FullScanLoop(_, _, _, _)
FullScanLoop(sc, pairs, fetch, window) ==
    IF pairs = <<>> THEN sc
    ELSE FullScanLoop(ScanUnit(sc, pairs[1][1], pairs[1][2], fetch[pairs[1]], window),
                      Tail(pairs), fetch, window)

\* init_full_scan: the store it returns
init_full_scan(symbols, fetch, window, now) ==
    Put(FullScanLoop(EmptyDict, ScanPairsOf(symbols), fetch, window),
        "metadata",
        [last_full_scan |-> [kind |-> "iso", at |-> now],
         last_candle_close_time |-> Null])

\* a store from an earlier run: entries of one configured and of the retired
\* symbol, the H pivot of value v from before the fetched history
OldStore(v, lfs) ==
    [s \in {ScanSymbols[1], RetiredSymbol, "metadata"} |->
        IF s = "metadata"
        THEN [last_full_scan |-> lfs, last_candle_close_time |-> Null]
        ELSE [i \in Range(all_intervals) |->
                 [H |-> <<[type |-> "HFractal", time |-> TickMs(0), high |-> v]>>,
                  L |-> <<>>]]]

InitFullScan ==
    /\ \E v \in Prices, lfs \in {Null, [kind |-> "iso", at |-> 0]} :
          storage = OldStore(v, lfs)
    /\ \E fetch \in [Range(ScanPairsOf(ScanSymbols)) -> FetchResults] :
          args = [op |-> "none", fetch |-> fetch]
    /\ env = [now |-> NowSec, config_mtime |-> Null]
    /\ meta = NoMeta
    /\ plan = NoPlan
    /\ CycleIdle
    /\ prev = NoStorage
    /\ scan = NoStorage
    /\ todo = <<>>
    /\ ops = 0
    /\ tracked = NoTrack
    /\ candles = <<>>
    /\ fractal_window \in Windows
    /\ pc = "full_scan"
    /\ detected = <<>>
    /\ BreakIdle

\* storage = await init_full_scan(...)
AwaitFullScan ==
    /\ pc = "full_scan"
    /\ storage' = init_full_scan(ScanSymbols, args.fetch, fractal_window, env.now)
    /\ prev' = storage
    /\ args' = [args EXCEPT !.op = "init_full_scan"]
    /\ pc' = "scanned"
    /\ UNCHANGED <<candles, fractal_window, detected, scan, todo, ops, tracked,
                   breakVars, otherVars>>

NextFullScan == AwaitFullScan

SpecFullScan == InitFullScan /\ [][NextFullScan]_vars

----------------------------------------------------------------------------
(* A start of the program: main.ensure_storage, or runner.runner_loop with *)
(* StorageManager.startup, then StorageManager.update_live.                *)

\* CandleFetcher.recovery: needed
recovery_needed(interval, downtime, limit) ==
    Min((downtime \div interval_map[interval]) + 5, limit)

\* CandleFetcher.live: lookback
live_lookback == 3

\* the exchange's answer to a request for the newest n candles
LastN(cs, n) == IF Len(cs) <= n THEN cs ELSE SubSeq(cs, Len(cs) - n + 1, Len(cs))

\* "for sym in symbols: for interval in ...: candles = await ...;
\* await update_storage(...)"; raised when a fetch raised, which ends the loop
RECURSIVE ReconcileLoop(_, _, _, _, _)
ReconcileLoop(st, pairs, fetch, needed, window) ==
    IF pairs = <<>> THEN [storage |-> st, raised |-> FALSE]
    ELSE LET symbol == pairs[1][1]
             interval == pairs[1][2]
             r == fetch[pairs[1]]
         IN  IF r.ok
             THEN ReconcileLoop(
                      update_storage(st, symbol, interval,
                          normalize_candles(LastN(r.candles, needed[interval])), window),
                      Tail(pairs), fetch, needed, window)
             ELSE [storage |-> st, raised |-> TRUE]

\* the store loaded at the start: one configured symbol, the retired symbol
\* or not, and the metadata
StartStore(v, symbols, m) ==
    [s \in symbols \cup {"metadata"} |->
        IF s = "metadata" THEN m
        ELSE [i \in Range(all_intervals) |->
                 [H |-> <<[type |-> "HFractal", time |-> TickMs(0), high |-> v]>>,
                  L |-> <<>>]]]

\* the fetch answers of one reconciliation pass
Fetches == [Range(ScanPairsOf(top_symbols)) -> FetchResults]

NoDowntime == [kind |-> "null"]

InitStart ==
    /\ meta \in [last_full_scan : LastFullScans, last_candle_close_time : LastCandleTimes]
    /\ env \in [now : {NowSec}, config_mtime : {Null, [kind |-> "time", at |-> 0]}]
    /\ \E v \in Prices, symbols \in {Range(top_symbols), Range(top_symbols) \cup {RetiredSymbol}} :
          storage = StartStore(v, symbols, meta)
    /\ plan = NoPlan
    /\ CycleIdle
    /\ prev = NoStorage
    /\ args = NoArgs
    /\ scan = NoStorage
    /\ todo = <<>>
    /\ ops = 0
    /\ tracked = NoTrack
    /\ candles = <<>>
    /\ fractal_window \in Windows
    /\ pc = "start"
    /\ detected = <<>>
    /\ BreakIdle

\* main.ensure_storage
EnsureStorage ==
    /\ pc = "start"
    /\ LET removed == (DOMAIN storage \ {"metadata"}) \ Range(top_symbols)
           pruned == [s \in (DOMAIN storage) \ removed |-> storage[s]]
           mode == ensure_storage_plan(meta, env)
       IN  /\ storage' = pruned
           /\ plan' = [plan EXCEPT !.ensure_storage = mode]
           \* init_full_scan is a coroutine function called without await:
           \* storage is bound to a coroutine object, on which save_storage
           \* fails inside its try block
           /\ storage_ref' = IF mode = "FullScan" THEN "coroutine" ELSE "dict"
           /\ log' = (IF removed # {} THEN <<Call("save_storage", TRUE)>> ELSE <<>>)
                     \o (IF mode = "FullScan"
                         THEN <<Call("init_full_scan", FALSE), Call("save_storage", FALSE)>>
                         ELSE <<>>)
    /\ prev' = storage
    /\ args' = [op |-> "ensure_storage"]
    /\ pc' = "ensured"
    /\ UNCHANGED <<candles, fractal_window, detected, scan, todo, ops, tracked,
                   breakVars, meta, env>>

\* runner.runner_loop up to and including "await storage_mgr.startup(...)"
RunnerStartup(fetch) ==
    /\ pc = "start"
    /\ LET mode == runner_loop_plan(meta, env)
           lct == meta.last_candle_close_time
           downtime == IF lct.kind = "ms"
                       THEN [kind |-> "int",
                             minutes |-> IntDiv(env.now - IntDiv(lct.at, 1000), 60)]
                       ELSE NoDowntime
           needed == [i \in Range(all_intervals) |->
                         IF mode = "RecoveryScan"
                         THEN recovery_needed(i, downtime.minutes, history_limit)
                         ELSE 0]
           rec == ReconcileLoop(storage, ScanPairsOf(top_symbols), fetch, needed,
                                fractal_window)
       IN  /\ plan' = [plan EXCEPT !.runner_loop = mode]
           \* candles are fetched in a recovery scan only
           /\ args' = [op |-> "startup", downtime |-> downtime,
                       fetch |-> IF mode = "RecoveryScan" THEN fetch ELSE EmptyDict,
                       needed |-> needed]
           /\ IF mode = "RecoveryScan"
              THEN IF rec.raised
                   THEN /\ storage' = rec.storage
                        /\ log' = <<Call("recover_from_timestamp", FALSE)>>
                   ELSE /\ storage' =
                              [rec.storage EXCEPT
                                 !["metadata"].last_candle_close_time =
                                     [kind |-> "ms", at |-> env.now * 1000]]
                        /\ log' = <<Call("recover_from_timestamp", TRUE),
                                    Call("save_storage", TRUE)>>
              ELSE /\ storage' = storage
                   \* startup passes init_full_scan six of its eight
                   \* arguments: the call raises TypeError
                   /\ log' = IF mode = "FullScan"
                             THEN <<Call("init_full_scan", FALSE)>>
                             ELSE IF mode = "Error"
                             THEN <<Call("fromisoformat", FALSE)>>
                             ELSE <<>>
           /\ pc' = IF \/ mode = "Skip"
                       \/ (mode = "RecoveryScan" /\ ~rec.raised)
                    THEN "started" ELSE "aborted"
    /\ prev' = storage
    /\ UNCHANGED <<candles, fractal_window, detected, scan, todo, ops, tracked,
                   breakVars, meta, env, storage_ref>>

\* StorageManager.update_live
UpdateLive(fetch) ==
    /\ pc = "started"
    /\ LET needed == [i \in Range(all_intervals) |-> live_lookback]
           rec == ReconcileLoop(storage, ScanPairsOf(top_symbols), fetch, needed,
                                fractal_window)
       IN  /\ storage' = rec.storage
           /\ args' = [op |-> "update_live", downtime |-> NoDowntime,
                       fetch |-> fetch, needed |-> needed]
           /\ log' = IF rec.raised
                     THEN <<Call("update_live", FALSE)>>
                     ELSE <<Call("update_live", TRUE), Call("save_storage", TRUE)>>
    /\ prev' = storage
    /\ pc' = "live"
    /\ UNCHANGED <<candles, fractal_window, detected, scan, todo, ops, tracked,
                   breakVars, meta, env, plan, storage_ref>>

NextStart ==
    \/ EnsureStorage
    \/ \E fetch \in Fetches : RunnerStartup(fetch)
    \/ \E fetch \in Fetches : UpdateLive(fetch)

SpecStart == InitStart /\ [][NextStart]_vars

----------------------------------------------------------------------------
(* One update_storage call on a store in which the (symbol, interval) pair *)
(* may have no entry yet.                                                   *)

\* the highs of the batches handed to the call
TouchSeries == UNION {[1..n -> Prices] : n \in 3..MaxLen}

InitTouch ==
    /\ \E S \in SUBSET StoredSymbols, I \in SUBSET Range(all_intervals), v \in Prices :
          storage = [s \in S \cup {"metadata"} |->
                        IF s = "metadata" THEN NoMeta
                        ELSE [i \in I |-> EntryOf(<<v>>)]]
    /\ prev = NoStorage
    /\ args = NoArgs
    /\ scan = NoStorage
    /\ todo = <<>>
    /\ ops = 0
    /\ tracked = NoTrack
    /\ candles = <<>>
    /\ fractal_window \in Windows
    /\ pc = "touch"
    /\ detected = <<>>
    /\ BreakIdle
    /\ OtherIdle

\* storage = await update_storage(storage, symbol, interval, candles, window)
UpdateOnce(symbol, interval, hs) ==
    /\ pc = "touch"
    /\ candles' = CycleBatch(hs)
    /\ detected' = detect_fractals(candles', fractal_window)
    /\ storage' = update_storage(storage, symbol, interval, candles', fractal_window)
    /\ prev' = storage
    /\ args' = [op |-> "update_storage", symbol |-> symbol, interval |-> interval]
    /\ pc' = "touched"
    /\ UNCHANGED <<fractal_window, scan, todo, ops, tracked, breakVars, otherVars>>

NextTouch ==
    \E symbol \in StoredSymbols, interval \in Range(all_intervals), hs \in TouchSeries :
        UpdateOnce(symbol, interval, hs)

SpecTouch == InitTouch /\ [][NextTouch]_vars

----------------------------------------------------------------------------
(* get_last_confirmed_candle (utils.bingx_api and BingxApiAsync) applied   *)
(* to an exchange response.                                                 *)

\* params["limit"]: the number of candles asked for
confirmed_limit == 3

\* the integer value of a key of a response candle (Null when the key is missing)
IntField(n) == [kind |-> "int", at |-> n]

\* the candles of a response, oldest first: consecutive open times from tick
\* t0, each candle carrying its open time as "time", as "openTime" or not at
\* all, the last candle still forming
RawCandle(open_ms, key, high, close) ==
    [time |-> IF key = "time" THEN IntField(open_ms) ELSE Null,
     openTime |-> IF key = "openTime" THEN IntField(open_ms) ELSE Null,
     open |-> high - 1, high |-> high, low |-> high - 1, close |-> close]

Responses(interval) ==
    UNION {{[i \in 1..n |->
                RawCandle((t0 + i - 1) * interval_map[interval] * 1000,
                          keys[i], highs[i], highs[i] - drops[i])] :
               keys \in [1..n -> {"time", "openTime", "none"}],
               highs \in [1..n -> Prices],
               drops \in [1..n -> {0, 1}]} :
           <<n, t0>> \in (0..confirmed_limit) \X (1..(MaxTime - confirmed_limit + 1))}

\* x or y on two optional integers: x unless it is None or 0
Or(x, y) == IF x # Null /\ x.at # 0 THEN x ELSE y

\* mutant: c = candles[-1]
get_last_confirmed_candle_Last(symbol, interval, imap, resp) ==
    IF Len(resp) < 2 THEN [raised |-> TRUE, candle |-> NoCandle]
    ELSE LET c == resp[Len(resp)]
             open_ts == Or(c.time, c.openTime)
         IN  IF open_ts = Null THEN [raised |-> TRUE, candle |-> NoCandle]
             ELSE [raised |-> FALSE,
                   candle |-> [symbol |-> symbol, interval |-> interval,
                               timestamp |-> open_ts.at + imap[interval] * 1000,
                               open |-> c.open, high |-> c.high,
                               low |-> c.low, close |-> c.close]]

\* raised when the function raises ValueError, else the dict it returns
get_last_confirmed_candle(symbol, interval, imap, resp) ==
    IF Len(resp) < 2 THEN [raised |-> TRUE, candle |-> NoCandle]
    ELSE LET c == resp[Len(resp) - 1]
             open_ts == Or(c.time, c.openTime)
         IN  IF open_ts = Null THEN [raised |-> TRUE, candle |-> NoCandle]
             ELSE [raised |-> FALSE,
                   candle |-> [symbol |-> symbol, interval |-> interval,
                               timestamp |-> open_ts.at + imap[interval] * 1000,
                               open |-> c.open, high |-> c.high,
                               low |-> c.low, close |-> c.close]]

InitConfirmed ==
    /\ \E interval \in Range(all_intervals) :
          /\ args = [op |-> "request", interval |-> interval, raised |-> FALSE]
          /\ candles \in Responses(interval)
    /\ candle = NoCandle
    /\ H_fractals = <<>>
    /\ L_fractals = <<>>
    /\ breakout = NoBreakout
    /\ storage = NoStorage
    /\ prev = NoStorage
    /\ scan = NoStorage
    /\ todo = <<>>
    /\ ops = 0
    /\ tracked = NoTrack
    /\ fractal_window \in Windows
    /\ pc = "request"
    /\ detected = <<>>
    /\ OtherIdle

GetLastConfirmedCandle ==
    /\ pc = "request"
    /\ LET r == get_last_confirmed_candle(top_symbols[1], args.interval,
                                          interval_map, candles)
       IN  /\ candle' = r.candle
           /\ args' = [args EXCEPT !.op = "get_last_confirmed_candle",
                                   !.raised = r.raised]
    /\ pc' = "answered"
    /\ UNCHANGED <<candles, fractal_window, detected, storage, prev, scan, todo,
                   ops, tracked, H_fractals, L_fractals, breakout, otherVars>>

NextConfirmed == GetLastConfirmedCandle

SpecConfirmed == InitConfirmed /\ [][NextConfirmed]_vars

----------------------------------------------------------------------------
(* A higher-interval pivot consumed by handle_htf_match, followed by the   *)
(* update_storage calls for that interval of the same and of later cycles. *)

\* closed candles of the first higher interval, oldest first
HtfBatch(hs) ==
    [i \in 1..Len(hs) |->
        [close_time |-> i * interval_map[higher_intervals[1]] * 1000,
         high |-> hs[i], low |-> hs[i] - 1]]

\* the store after a reconciliation of the higher interval with candles cs
InitConsumed ==
    /\ fractal_window \in Windows
    /\ \E hs \in TouchSeries :
          /\ candles = HtfBatch(hs)
          /\ storage = update_storage(
                           [s \in Range(top_symbols) \cup {"metadata"} |->
                               IF s = "metadata" THEN NoMeta ELSE EmptyDict],
                           top_symbols[1], higher_intervals[1], candles,
                           fractal_window)
    /\ prev = NoStorage
    /\ args = NoArgs
    /\ scan = NoStorage
    /\ todo = <<>>
    /\ ops = 0
    /\ tracked = NoTrack
    /\ pc = "consume"
    /\ detected = <<>>
    /\ BreakIdle
    /\ OtherIdle

\* the pivots of the higher interval that handle_htf_match removes for a
\* breakout of the given side and value
Consumed(st, symbol, side, value) ==
    LET e == Entry(st, symbol, higher_intervals[1])
        list == IF side = "H" THEN e.H ELSE e.L
    IN  {[side |-> side, time |-> list[k].time, value |-> value] :
            k \in {j \in 1..Len(list) :
                     (IF side = "H" THEN list[j].high ELSE list[j].low) = value}}

\* storage, matched_htfs = handle_htf_match(storage, symbol, breakout, ...)
ConsumeHtf(side, value) ==
    /\ pc = "consume"
    /\ HtfMatchStep(top_symbols[1], side, value, higher_intervals)
    /\ LET gone == Consumed(storage, top_symbols[1], side, value)
       IN  IF gone = {} THEN tracked' = NoTrack ELSE tracked' \in gone
    /\ pc' = "consumed"
    /\ UNCHANGED <<candles, fractal_window, detected, scan, todo, ops,
                   breakVars, otherVars>>

\* an executed update_storage call for the higher interval, after no new
\* candle (high 0) or one new candle of that interval has closed
ReconcileHtf(high) ==
    /\ pc \in {"consumed", "reconciled"}
    /\ ops < MaxUpdates
    /\ candles' = IF high = 0 THEN candles
                  ELSE candles \o <<[close_time |-> (Len(candles) + 1)
                                        * interval_map[higher_intervals[1]] * 1000,
                                     high |-> high, low |-> high - 1]>>
    /\ storage' = update_storage(storage, top_symbols[1], higher_intervals[1],
                                 candles', fractal_window)
    /\ prev' = storage
    /\ args' = [op |-> "update_storage", symbol |-> top_symbols[1],
                interval |-> higher_intervals[1]]
    /\ ops' = ops + 1
    /\ pc' = "reconciled"
    /\ UNCHANGED <<fractal_window, detected, scan, todo, tracked,
                   breakVars, otherVars>>

NextConsumed ==
    \/ \E side \in {"H", "L"}, value \in Prices : ConsumeHtf(side, value)
    \/ \E high \in {0} \cup Prices : ReconcileHtf(high)

SpecConsumed == InitConsumed /\ [][NextConsumed]_vars

----------------------------------------------------------------------------
(* Successive update_storage calls on one (symbol, interval) whose batches *)
(* are contiguous windows of one candle series, the end never moving back. *)

\* the candles with positions from..to of the series
Window(series, from, to) == SubSeq(series, from, to)

\* the positions of the series that were in a batch so far
Seen(windows) ==
    UNION {windows[k][1]..windows[k][2] : k \in 1..Len(windows)}

InitWindows ==
    /\ \E hs \in [1..(MaxLen + 1) -> Prices] : candles = CycleBatch(hs)
    /\ storage = [s \in Range(top_symbols) \cup {"metadata"} |->
                     IF s = "metadata" THEN NoMeta ELSE EmptyDict]
    /\ prev = NoStorage
    /\ args = NoArgs
    /\ scan = NoStorage
    /\ todo = <<>>
    /\ ops = 0
    /\ tracked = NoTrack
    /\ fractal_window \in Windows
    /\ pc = "windows"
    /\ detected = <<>>
    /\ BreakIdle
    /\ OtherIdle

\* update_storage(storage, symbol, interval, series[from..to], window); todo
\* lists the windows of the calls made
UpdateWindow(from, to) ==
    /\ ops < MaxUpdates
    /\ from <= to
    /\ to <= Len(candles)
    /\ (todo # <<>>) => to >= todo[Len(todo)][2]
    /\ storage' = update_storage(storage, top_symbols[1], base_interval,
                                 Window(candles, from, to), fractal_window)
    /\ prev' = storage
    /\ args' = [op |-> "update_storage", symbol |-> top_symbols[1],
                interval |-> base_interval]
    /\ todo' = Append(todo, <<from, to>>)
    /\ ops' = ops + 1
    /\ pc' = "windowed"
    /\ UNCHANGED <<candles, fractal_window, detected, scan, tracked,
                   breakVars, otherVars>>

NextWindows ==
    \E from \in 1..(MaxLen + 1), to \in 1..(MaxLen + 1) : UpdateWindow(from, to)

SpecWindows == InitWindows /\ [][NextWindows]_vars

----------------------------------------------------------------------------
(* Successive runs of main.main: each loads the store and runs one cycle   *)
(* of run_fractal_detection on the exchange's candles of that time. todo   *)
(* lists the breakouts the earlier cycles reported.                        *)

MaxCycles == 3      \* cycles in one run of the multi-cycle machine

\* the store load_storage returns in every cycle of the run
LoadedStore ==
    [s \in Range(top_symbols) \cup {"metadata"} |->
        IF s = "metadata" THEN NoMeta ELSE EmptyDict]

InitCycles ==
    /\ \E hs \in [1..(MaxLen + 1) -> 1..(MaxPrice + 1)] :
          scan = [series |-> CycleBatch(hs), last |-> 0]
    /\ storage = LoadedStore
    /\ candles = <<>>
    /\ prev = NoStorage
    /\ args = NoArgs
    /\ todo = <<>>
    /\ ops = 0
    /\ tracked = NoTrack
    /\ fractal_window \in Windows
    /\ pc = "idle"
    /\ detected = <<>>
    /\ BreakIdle
    /\ OtherIdle

\* the start of a cycle: the candle at position last of the series is the
\* last confirmed one, and get_candles returns the candles from..last; a
\* later cycle has a later last confirmed candle and a history that holds
\* the one of the cycle before
BeginCycle(from, last) ==
    /\ pc \in {"idle", "cycle_done"}
    /\ ops < MaxCycles
    /\ last > scan.last
    /\ last <= Len(scan.series)
    /\ from <= last
    /\ (scan.last > 0) => from <= scan.last
    /\ candles' = Window(scan.series, from, last)
    /\ scan' = [scan EXCEPT !.last = last]
    /\ todo' = IF breakout # NoBreakout THEN Append(todo, breakout) ELSE todo
    /\ storage' = LoadedStore
    /\ storage_ref' = "dict"
    /\ log' = <<>>
    /\ prev' = NoStorage
    /\ args' = NoArgs
    /\ H_fractals' = <<>>
    /\ L_fractals' = <<>>
    /\ candle' = NoCandle
    /\ breakout' = NoBreakout
    /\ ops' = ops + 1
    /\ pc' = "cycle"
    /\ UNCHANGED <<fractal_window, detected, tracked, planVars>>

NextCycles ==
    \/ \E from \in 1..(MaxLen + 1), last \in 1..(MaxLen + 1) : BeginCycle(from, last)
    \/ \E close \in 0..(MaxPrice + 1), fail \in RaisePoints :
          RunFractalDetection(close, fail)

SpecCycles == InitCycles /\ [][NextCycles]_vars

----------------------------------------------------------------------------
(* CandleFetcher over successive cycles: get with its cache, and the close *)
(* of a new base-interval candle between two cycles.                       *)

MaxTicks == 2       \* cycle boundaries in one run of the cache machine

\* the limits get is called with: live's lookback and a full scan's limit
Limits == {live_lookback, history_limit}

\* self._cache keys
CacheKeys == Range(top_symbols) \X Range(all_intervals) \X Limits

\* the exchange's closed candles per interval (candles), an empty cache
\* (scan), cycle 0 (ops)
InitCache ==
    /\ \E hs \in [1..live_lookback -> Prices] :
          candles = [i \in Range(all_intervals) |->
                        IF i = base_interval THEN CycleBatch(hs)
                        ELSE HtfBatch(<<1, 2, 1>>)]
    /\ scan = EmptyDict
    /\ ops = 0
    /\ storage = NoStorage
    /\ prev = NoStorage
    /\ args = NoArgs
    /\ todo = <<>>
    /\ tracked = NoTrack
    /\ fractal_window \in Windows
    /\ pc = "fetcher"
    /\ detected = <<>>
    /\ BreakIdle
    /\ OtherIdle

\* CandleFetcher.get; a cache entry carries the cycle it was fetched in, and
\* args records the batch returned, the cycle of the call and the cycle the
\* batch was fetched in
Get(symbol, interval, limit) ==
    /\ pc = "fetcher"
    /\ LET key == <<symbol, interval, limit>>
           hit == key \in DOMAIN scan
           fetched == [candles |-> normalize_candles(LastN(candles[interval], limit)),
                       cycle |-> ops]
           entry == IF hit THEN scan[key] ELSE fetched
       IN  /\ scan' = IF hit THEN scan ELSE Put(scan, key, fetched)
           /\ args' = [op |-> "get", key |-> key, cycle |-> ops,
                       fetched_in |-> entry.cycle, candles |-> entry.candles]
    /\ UNCHANGED <<candles, storage, prev, todo, ops, tracked, fractal_window,
                   pc, detected, breakVars, otherVars>>

\* the end of a cycle: a base-interval candle closes on the exchange; no
\* caller clears the cache
EndCycle(high) ==
    /\ pc = "fetcher"
    /\ ops < MaxTicks
    /\ ops' = ops + 1
    /\ candles' = [candles EXCEPT ![base_interval] =
                      @ \o <<[close_time |-> TickMs(Len(@) + 1),
                              high |-> high, low |-> high - 1]>>]
    /\ UNCHANGED <<storage, prev, args, scan, todo, tracked, fractal_window,
                   pc, detected, breakVars, otherVars>>

NextCache ==
    \/ \E key \in CacheKeys : Get(key[1], key[2], key[3])
    \/ \E high \in Prices : EndCycle(high)

SpecCache == InitCache /\ [][NextCache]_vars

----------------------------------------------------------------------------
(* Properties *)

\* the (time, value) identities of a list of High / Low pivots
KeysH(list) == {<<list[k].time, list[k].high>> : k \in 1..Len(list)}
KeysL(list) == {<<list[k].time, list[k].low>> : k \in 1..Len(list)}

\* the (symbol, interval) entries a store holds
StoredPairs(st) == {p \in (DOMAIN st) \X Range(all_intervals) : p[2] \in DOMAIN st[p[1]]}

UpdateDone == args.op = "update_storage"

\* C1: a second update_storage call with the same symbol, interval, candles
\* and window leaves the store exactly as the first call left it.
C1_UpdateIdempotent ==
    UpdateDone =>
        update_storage(storage, args.symbol, args.interval,
                       normalize_candles(candles), fractal_window) = storage

\* a call that kept an old pivot, detected pivots and now holds several
C1_Witness ==
    /\ UpdateDone
    /\ Entry(prev, args.symbol, args.interval).H # <<>>
    /\ detected[1] # <<>>
    /\ detected[2] # <<>>
    /\ Len(storage[args.symbol][args.interval].H) >= 2

\* C2: after update_storage the H list holds exactly the old H pivots that no
\* later candle of the batch exceeds plus the H pivots detected in the batch,
\* each (time, value) once; symmetrically the L list with lows below.
C2_UpdateExactSets ==
    UpdateDone =>
        LET cs == normalize_candles(candles)
            old == Entry(prev, args.symbol, args.interval)
            new == storage[args.symbol][args.interval]
            det == detect_fractals(cs, fractal_window)
            survH == {p \in KeysH(old.H) :
                        ~\E j \in 1..Len(cs) : cs[j].close_time > p[1] /\ cs[j].high > p[2]}
            survL == {p \in KeysL(old.L) :
                        ~\E j \in 1..Len(cs) : cs[j].close_time > p[1] /\ cs[j].low < p[2]}
        IN  /\ KeysH(new.H) = survH \cup KeysH(det[1])
            /\ KeysL(new.L) = survL \cup KeysL(det[2])
            /\ Len(new.H) = Cardinality(KeysH(new.H))
            /\ Len(new.L) = Cardinality(KeysL(new.L))

\* a batch that lies wholly after a stored H pivot and carries it forward,
\* while it removes a stored L pivot as broken
C2_Witness ==
    /\ UpdateDone
    /\ candles # <<>>
    /\ LET old == Entry(prev, args.symbol, args.interval)
           new == storage[args.symbol][args.interval]
       IN  /\ \E p \in KeysH(old.H) :
                 /\ \A j \in 1..Len(candles) : candles[j].close_time > p[1]
                 /\ p \in KeysH(new.H)
           /\ \E q \in KeysL(old.L) : q \notin KeysL(new.L)

\* C3: no H or L list of any (symbol, interval) of the store holds two pivots
\* with equal (time, value).
C3_NoDuplicatePivots ==
    \A p \in StoredPairs(storage) :
        LET e == storage[p[1]][p[2]]
        IN  /\ Len(e.H) = Cardinality(KeysH(e.H))
            /\ Len(e.L) = Cardinality(KeysL(e.L))

\* C5: every H list is ordered by time descending, equal times by value
\* descending; every L list by time descending, equal times by value ascending.
C5_Ordered ==
    \A p \in StoredPairs(storage) :
        LET e == storage[p[1]][p[2]]
        IN  /\ \A i, j \in 1..Len(e.H) :
                  i < j => \/ e.H[i].time > e.H[j].time
                           \/ (e.H[i].time = e.H[j].time /\ e.H[i].high >= e.H[j].high)
            /\ \A i, j \in 1..Len(e.L) :
                  i < j => \/ e.L[i].time > e.L[j].time
                           \/ (e.L[i].time = e.L[j].time /\ e.L[i].low <= e.L[j].low)

\* an update that left two H pivots of one candle time in a list
C5_Witness ==
    /\ UpdateDone
    /\ \E p \in StoredPairs(storage) :
          LET e == storage[p[1]][p[2]]
          IN  \E i, j \in 1..Len(e.H) :
                 i < j /\ e.H[i].time = e.H[j].time /\ e.H[i].high > e.H[j].high

\* C4: a pivot that an update_storage call removed as broken by its batch is
\* not in the stored set after that call nor after any later call for the
\* same (symbol, interval) whose batch contains every candle of that batch.
C4_InvalidationMonotone ==
    (/\ tracked # NoTrack
     /\ UpdateDone
     /\ args.symbol = tracked.symbol
     /\ args.interval = tracked.interval
     /\ tracked.batch \subseteq Range(candles))
    => LET e == storage[args.symbol][args.interval]
       IN  IF tracked.side = "H"
           THEN <<tracked.time, tracked.value>> \notin KeysH(e.H)
           ELSE <<tracked.time, tracked.value>> \notin KeysL(e.L)

\* a later call whose batch holds the breaking batch and in which the removed
\* pivot's candle is again a local extreme
C4_Witness ==
    /\ tracked # NoTrack
    /\ UpdateDone
    /\ ops > tracked.at
    /\ fractal_window = 3
    /\ tracked.batch \subseteq Range(candles)
    /\ \E i \in 2..(Len(candles) - 1) :
          /\ candles[i].close_time = tracked.time
          /\ IF tracked.side = "H"
             THEN /\ candles[i].high = tracked.value
                  /\ candles[i - 1].high < tracked.value
                  /\ candles[i + 1].high < tracked.value
             ELSE /\ candles[i].low = tracked.value
                  /\ candles[i - 1].low > tracked.value
                  /\ candles[i + 1].low > tracked.value

DetectDone == pc = "detected"

\* the 1-based positions of the candles detect_fractals may turn into pivots
Eligible(cs, n) == {i \in 1..Len(cs) : n < i /\ i <= Len(cs) - n}

\* C6: the High pivots are exactly the eligible candles whose high is
\* strictly above the high of each of the n candles on either side and that
\* no later candle exceeds, with the candle's close_time and high; the Low
\* pivots are the symmetric set.
C6_DetectExact ==
    DetectDone =>
        LET cs == candles
            n == (fractal_window - 1) \div 2
            near(i) == {j \in (i - n)..(i + n) : j # i}
            isH(i) == /\ \A j \in near(i) : cs[i].high > cs[j].high
                      /\ \A j \in 1..Len(cs) :
                            cs[j].close_time > cs[i].close_time => cs[j].high <= cs[i].high
            isL(i) == /\ \A j \in near(i) : cs[i].low < cs[j].low
                      /\ \A j \in 1..Len(cs) :
                            cs[j].close_time > cs[i].close_time => cs[j].low >= cs[i].low
        IN  /\ KeysH(detected[1]) =
                  {<<cs[i].close_time, cs[i].high>> : i \in {k \in Eligible(cs, n) : isH(k)}}
            /\ KeysL(detected[2]) =
                  {<<cs[i].close_time, cs[i].low>> : i \in {k \in Eligible(cs, n) : isL(k)}}
            /\ \A k \in 1..Len(detected[1]) : detected[1][k].type = "HFractal"
            /\ \A k \in 1..Len(detected[2]) : detected[2][k].type = "LFractal"

\* a local high left out because a later candle exceeds it, and a Low pivot
\* returned
C6_Witness ==
    /\ DetectDone
    /\ detected[1] = <<>>
    /\ detected[2] # <<>>
    /\ Len(candles) = 4
    /\ candles[2].high > candles[1].high
    /\ candles[2].high > candles[3].high
    /\ candles[4].high > candles[2].high

\* C7: every pivot comes from a candle at a 0-based index i with
\* n <= i < len - n, and an input shorter than the window gives two empty
\* lists.
C7_IndexBounds ==
    DetectDone =>
        LET cs == candles
            n == (fractal_window - 1) \div 2
            inner == {cs[i].close_time : i \in Eligible(cs, n)}
            outer == {cs[i].close_time : i \in (1..Len(cs)) \ Eligible(cs, n)}
        IN  /\ \A k \in 1..Len(detected[1]) :
                  detected[1][k].time \in inner \ outer
            /\ \A k \in 1..Len(detected[2]) :
                  detected[2][k].time \in inner \ outer
            /\ Len(cs) < fractal_window => detected = <<<<>>, <<>>>>

\* the last candle has the highest high and the lowest low of a full window,
\* and no pivot is returned
C7_Witness ==
    /\ DetectDone
    /\ Len(candles) >= fractal_window
    /\ \A i \in 1..(Len(candles) - 1) :
          /\ candles[Len(candles)].high > candles[i].high
          /\ candles[Len(candles)].low < candles[i].low
    /\ detected = <<<<>>, <<>>>>

\* the candles of cs without those that repeat an earlier close_time
Dedup(cs) ==
    LET keep == {i \in 1..Len(cs) :
                    \A j \in 1..(i - 1) : cs[j].close_time # cs[i].close_time}
    IN  [r \in 1..Cardinality(keep) |-> cs[Nth(keep, r)]]

\* C8: on a sequence that repeats a close_time, detect_fractals returns what
\* it returns on the sequence without the repeating candles.
C8_DuplicateIgnored ==
    DetectDone => detected = detect_fractals(Dedup(candles), fractal_window)

BreakoutDone == pc = "checked"

\* the High pivots the candle strictly exceeds, the Low pivots it strictly
\* undercuts
ExceededH == {k \in 1..Len(H_fractals) : candle.high > H_fractals[k].high}
UndercutL == {k \in 1..Len(L_fractals) : candle.low < L_fractals[k].low}

\* C9: the result is an H breakout whenever the candle's high strictly
\* exceeds some High pivot, an L breakout only when it exceeds none and its
\* low strictly undercuts some Low pivot, and none otherwise.
C9_HighPriority ==
    BreakoutDone =>
        /\ ExceededH # {} =>
              /\ breakout.type \in {"HConfirm", "HSweep"}
              /\ breakout.fractal_side = "H"
        /\ (ExceededH = {} /\ UndercutL # {}) =>
              /\ breakout.type \in {"LConfirm", "LSweep"}
              /\ breakout.fractal_side = "L"
        /\ (ExceededH = {} /\ UndercutL = {}) => breakout = NoBreakout

\* the candle exceeds a High pivot, undercuts a Low pivot and only touches
\* another High pivot
C9_Witness ==
    /\ BreakoutDone
    /\ ExceededH # {}
    /\ UndercutL # {}
    /\ \E k \in 1..Len(H_fractals) : candle.high = H_fractals[k].high
    /\ breakout.fractal_side = "H"

\* C10: the reported pivot has the greatest value among the exceeded High
\* pivots (the least among the undercut Low pivots), and fractal_value and
\* fractal_time are that pivot's value and time.
C10_MostExtremePivot ==
    BreakoutDone =>
        /\ ExceededH # {} =>
              \E k \in ExceededH :
                 /\ \A j \in ExceededH : H_fractals[j].high <= H_fractals[k].high
                 /\ breakout.fractal_value = H_fractals[k].high
                 /\ breakout.fractal_time = H_fractals[k].time
        /\ (ExceededH = {} /\ UndercutL # {}) =>
              \E k \in UndercutL :
                 /\ \A j \in UndercutL : L_fractals[j].low >= L_fractals[k].low
                 /\ breakout.fractal_value = L_fractals[k].low
                 /\ breakout.fractal_time = L_fractals[k].time

\* two exceeded High pivots of different values, the greater one listed second
C10_Witness ==
    /\ BreakoutDone
    /\ Len(H_fractals) = 2
    /\ ExceededH = {1, 2}
    /\ H_fractals[2].high > H_fractals[1].high
    /\ breakout.fractal_time = H_fractals[2].time

\* C11: for the selected High pivot of value V the kind is HConfirm if
\* candle.close > V and HSweep if candle.close <= V; for the selected Low
\* pivot it is LConfirm if candle.close < V and LSweep if candle.close >= V.
C11_Classification ==
    (BreakoutDone /\ breakout # NoBreakout) =>
        LET V == breakout.fractal_value
        IN  IF breakout.fractal_side = "H"
            THEN /\ candle.high > V
                 /\ candle.close > V => breakout.type = "HConfirm"
                 /\ candle.close <= V => breakout.type = "HSweep"
            ELSE /\ breakout.fractal_side = "L"
                 /\ candle.low < V
                 /\ candle.close < V => breakout.type = "LConfirm"
                 /\ candle.close >= V => breakout.type = "LSweep"

\* a candle that exceeds the selected High pivot and closes exactly on it
C11_Witness ==
    /\ BreakoutDone
    /\ breakout # NoBreakout
    /\ breakout.fractal_side = "H"
    /\ candle.close = breakout.fractal_value
    /\ breakout.type = "HSweep"

\* C12: the distance is the floor quotient of (candle close time - pivot
\* time) by the interval duration in milliseconds, and it is >= 0 whenever
\* the pivot's time is not after the candle's time.
C12_DistanceFloor ==
    (BreakoutDone /\ breakout # NoBreakout) =>
        LET diff == breakout.candle_time - breakout.fractal_time
            ms == interval_map[breakout.interval] * 1000
        IN  /\ breakout.candle_time = candle.timestamp
            /\ breakout.distance * ms <= diff
            /\ diff < (breakout.distance + 1) * ms
            /\ diff >= 0 => breakout.distance >= 0

\* a breakout of a pivot one and a half intervals before the candle
C12_Witness ==
    /\ BreakoutDone
    /\ breakout # NoBreakout
    /\ breakout.candle_time - breakout.fractal_time = HalfTickMs(3)
    /\ breakout.distance = 1

HtfDone == args.op = "handle_htf_match"

\* the value of a pivot of the given side
ValueOf(f, side) == IF side = "H" THEN f.high ELSE f.low

\* list without the pivots of value v, the others in their order
Without(list, side, v) ==
    LET keep == {k \in 1..Len(list) : ValueOf(list[k], side) # v}
    IN  [r \in 1..Cardinality(keep) |-> list[Nth(keep, r)]]

\* the entries of the symbol in the store, none if the store lacks the symbol
SymbolEntries(st, symbol) == IF symbol \in DOMAIN st THEN st[symbol] ELSE EmptyDict

\* C15: handle_htf_match removes, in each listed interval the symbol has an
\* entry for, the pivots of the breakout's side whose value equals
\* fractal_value, keeps the others in their order, and leaves the other side,
\* the intervals not listed, the other symbols and the metadata as they were.
C15_HtfFrame ==
    HtfDone =>
        /\ DOMAIN storage = DOMAIN prev
        /\ "metadata" \in DOMAIN prev => storage["metadata"] = prev["metadata"]
        /\ \A s \in (DOMAIN prev) \ {"metadata"} :
              /\ DOMAIN storage[s] = DOMAIN prev[s]
              /\ \A i \in DOMAIN prev[s] : \A sd \in {"H", "L"} :
                    storage[s][i][sd] =
                        IF /\ s = args.symbol
                           /\ i \in Range(args.higher_intervals)
                           /\ sd = args.breakout.fractal_side
                        THEN Without(prev[s][i][sd], sd, args.breakout.fractal_value)
                        ELSE prev[s][i][sd]

\* a call that removed a pivot from a listed interval and left a pivot of
\* another value there, while the opposite side, the base interval and the
\* other symbol hold pivots of the same value
C15_Witness ==
    /\ HtfDone
    /\ "metadata" \in DOMAIN prev
    /\ args.symbol \in DOMAIN prev
    /\ "15m" \in DOMAIN prev[args.symbol]
    /\ \E k \in 1..Len(prev[args.symbol]["15m"].H) :
          prev[args.symbol]["15m"].H[k].high = args.breakout.fractal_value
    /\ args.breakout.fractal_side = "H"
    /\ \E i \in Range(args.higher_intervals) :
          /\ i \in DOMAIN prev[args.symbol]
          /\ Len(storage[args.symbol][i].H) = 1
          /\ Len(prev[args.symbol][i].H) = 2
          /\ Len(storage[args.symbol][i].L) = 2

\* C16: matched_htfs lists exactly the intervals of higher_intervals in which
\* the call removed a pivot, each once, in the order of higher_intervals.
C16_MatchedList ==
    HtfDone =>
        LET hi == args.higher_intervals
            old == SymbolEntries(prev, args.symbol)
            side == args.breakout.fractal_side
            hit == {k \in 1..Len(hi) :
                      /\ hi[k] \in DOMAIN old
                      /\ \E j \in 1..Len(old[hi[k]][side]) :
                            ValueOf(old[hi[k]][side][j], side) = args.breakout.fractal_value
                      /\ \A j \in 1..(k - 1) : hi[j] # hi[k]}
        IN  args.matched_htfs = [r \in 1..Cardinality(hit) |-> hi[Nth(hit, r)]]

\* two listed intervals with entries, only the second one matched
C16_Witness ==
    /\ HtfDone
    /\ Len(args.higher_intervals) = 2
    /\ args.symbol \in DOMAIN prev
    /\ args.higher_intervals[1] \in DOMAIN prev[args.symbol]
    /\ args.higher_intervals[1] # args.higher_intervals[2]
    /\ args.matched_htfs = <<args.higher_intervals[2]>>

PlanDone == pc = "planned"

C19_UnparseableFullScan ==
    (PlanDone /\ meta.last_full_scan.kind = "unparseable") =>
        /\ plan.ensure_storage = "FullScan"
        /\ plan.runner_loop = "FullScan"

\* C20: when last_full_scan is more than StaleHours hours before now, both
\* entry points select FullScan, even if the downtime is below one base
\* interval.
C20_StaleFullScan ==
    (/\ PlanDone
     /\ meta.last_full_scan.kind = "iso"
     /\ env.now - meta.last_full_scan.at > StaleHours * 3600) =>
        /\ plan.ensure_storage = "FullScan"
        /\ plan.runner_loop = "FullScan"

CycleDone == pc = "cycle_done"

\* the calls of the given name in the log, by position
CallsOf(name) == {k \in 1..Len(log) : log[k].call = name}

\* the stored base-interval list of the breakout's side holds the pivot the
\* breakout names
HoldsBrokenPivot(st, bo) ==
    LET e == Entry(st, bo.symbol, bo.interval)
        list == IF bo.fractal_side = "H" THEN e.H ELSE e.L
    IN  \E k \in 1..Len(list) :
           /\ list[k].time = bo.fractal_time
           /\ ValueOf(list[k], bo.fractal_side) = bo.fractal_value

\* C13: check_breakouts leaves the store as it is, and once it has reported a
\* breakout of a pivot, the next update_storage call for the symbol's base
\* interval leaves the stored set without that pivot.
C13_BrokenPivotRemoved ==
    (CycleDone /\ breakout # NoBreakout /\ CallsOf("update_storage") # {}) =>
        ~HoldsBrokenPivot(storage, breakout)

\* C14: the pivot sets a cycle passes to check_breakouts are the sets the
\* store held for the symbol's base interval when the cycle began.
C14_EvaluatedAgainstStored ==
    (CycleDone /\ CallsOf("check_breakouts") # {}) =>
        /\ H_fractals = Entry(prev, top_symbols[1], base_interval).H
        /\ L_fractals = Entry(prev, top_symbols[1], base_interval).L

\* C17: in a cycle that calls handle_htf_match, a save_storage call that
\* stored the result comes after check_breakouts and before handle_htf_match.
C17_SavedBeforeHtfMatch ==
    CycleDone =>
        \A m \in CallsOf("handle_htf_match") :
            \E c \in CallsOf("check_breakouts"), s \in CallsOf("save_storage") :
                c < s /\ s < m /\ log[s].ok

\* last_full_scan is a timestamp not older than StaleHours hours
FreshFullScan ==
    /\ meta.last_full_scan.kind = "iso"
    /\ env.now - meta.last_full_scan.at <= StaleHours * 3600

\* config.json was modified after last_full_scan
ConfigNewer ==
    /\ meta.last_full_scan.kind = "iso"
    /\ env.config_mtime.kind = "time"
    /\ env.config_mtime.at > meta.last_full_scan.at

\* C21: when config.json was modified after last_full_scan, both entry points
\* select FullScan, whatever the downtime.
C21_ConfigModified ==
    (PlanDone /\ ConfigNewer) =>
        /\ plan.ensure_storage = "FullScan"
        /\ plan.runner_loop = "FullScan"

\* C22: when last_full_scan is a fresh timestamp and last_candle_close_time
\* is absent, both entry points select FullScan.
C22_NoLastCandle ==
    (PlanDone /\ FreshFullScan /\ meta.last_candle_close_time = Null) =>
        /\ plan.ensure_storage = "FullScan"
        /\ plan.runner_loop = "FullScan"

\* the time since last_candle_close_time is longer than history_limit base
\* intervals
DowntimeExceedsHistory ==
    env.now * 1000 - meta.last_candle_close_time.at
        > history_limit * interval_map[base_interval] * 1000

\* C23: when no other rule asks for a full scan (last_full_scan fresh,
\* config.json not modified since, last_candle_close_time present), each entry
\* point selects FullScan exactly when the time since last_candle_close_time
\* exceeds history_limit base intervals.
C23_DowntimeRule ==
    (/\ PlanDone
     /\ FreshFullScan
     /\ ~ConfigNewer
     /\ meta.last_candle_close_time.kind = "ms") =>
        /\ plan.ensure_storage = "FullScan" <=> DowntimeExceedsHistory
        /\ plan.runner_loop = "FullScan" <=> DowntimeExceedsHistory

FullScanDone == pc = "scanned"

\* C26: a fetch or detection failure for one (symbol, interval) of
\* init_full_scan leaves that pair without an entry in the returned store,
\* and every pair whose fetch succeeded, before or after the failure, has one.
C26_FailedUnitSkipped ==
    FullScanDone =>
        \A p \in Range(ScanPairsOf(ScanSymbols)) :
            /\ p[1] \in DOMAIN storage
            /\ p[2] \in DOMAIN storage[p[1]] <=> args.fetch[p].ok

\* the first pair failed, a later pair of the same symbol and the pairs of
\* the next symbol were scanned
C26_Witness ==
    /\ FullScanDone
    /\ ~args.fetch[ScanPairsOf(ScanSymbols)[1]].ok
    /\ \A k \in 2..Len(ScanPairsOf(ScanSymbols)) :
          /\ args.fetch[ScanPairsOf(ScanSymbols)[k]].ok
          /\ ScanPairsOf(ScanSymbols)[k][2]
                \in DOMAIN storage[ScanPairsOf(ScanSymbols)[k][1]]

StartupDone == args.op = "startup"

C25_RecoverySpan ==
    (StartupDone /\ plan.runner_loop = "RecoveryScan") =>
        \A i \in Range(all_intervals) :
            args.needed[i] < history_limit =>
                args.needed[i] * interval_map[i] >= args.downtime.minutes * 60

StartDone == pc \in {"ensured", "started", "aborted"}

\* the scan mode the entry point that ran has selected
SelectedMode ==
    IF pc = "ensured" THEN plan.ensure_storage ELSE plan.runner_loop

\* C27: after a start that selected FullScan the program's store is the one
\* init_full_scan builds: for every configured (symbol, interval) the pivots
\* detected in freshly fetched candles and no pivot of the previous store,
\* with metadata.last_full_scan set to the time of the scan.
C27_FullScanRebuilds ==
    (StartDone /\ SelectedMode = "FullScan") =>
        /\ storage_ref = "dict"
        /\ storage["metadata"].last_full_scan = [kind |-> "iso", at |-> env.now]
        /\ \A p \in Range(ScanPairsOf(top_symbols)) :
              \A k \in 1..Len(Entry(storage, p[1], p[2]).H) :
                  Entry(storage, p[1], p[2]).H[k].time # TickMs(0)

\* C28: after either start no symbol outside the configured list is in the
\* store, the store was saved if a symbol was deleted, and the metadata
\* record is still there.
C28_Pruned ==
    StartDone =>
        /\ (DOMAIN storage) \ {"metadata"} \subseteq Range(top_symbols)
        /\ "metadata" \in DOMAIN storage
        /\ (RetiredSymbol \in DOMAIN prev) =>
              \E k \in 1..Len(log) : log[k] = Call("save_storage", TRUE)

ReconcileDone == args.op \in {"startup", "update_live"} /\ args.fetch # EmptyDict

\* C30: in recover_from_timestamp and update_live a fetch that fails for one
\* (symbol, interval) leaves the other pairs reconciled with their fetched
\* candles, and the store is saved.
C30_FailureIsolated ==
    ReconcileDone =>
        /\ \A p \in Range(ScanPairsOf(top_symbols)) :
              args.fetch[p].ok =>
                  Entry(storage, p[1], p[2])
                    = Entry(update_storage(prev, p[1], p[2],
                                normalize_candles(LastN(args.fetch[p].candles,
                                                        args.needed[p[2]])),
                                fractal_window),
                            p[1], p[2])
        /\ \E k \in 1..Len(log) : log[k] = Call("save_storage", TRUE)

\* a candle fetch of the cycle raised
FetchFailed ==
    \E k \in 1..Len(log) :
        /\ log[k].call \in {"get_last_confirmed_candle", "get_candles"}
        /\ ~log[k].ok

\* C29: when a candle fetch fails during a symbol's cycle, the pivot sets the
\* store holds for that symbol are, for every interval, the same at the end of
\* the cycle as at its start.
C29_FetchFailureLeavesStore ==
    (CycleDone /\ FetchFailed) =>
        \A i \in Range(all_intervals) :
            Entry(storage, top_symbols[1], i) = Entry(prev, top_symbols[1], i)

\* C31: a cycle whose send_signal call raised still makes the update_storage
\* call of the base and of every higher interval and the save_storage call.
C31_DeliveryFailureOnlyLogged ==
    CycleDone =>
        \A m \in CallsOf("send_signal") :
            ~log[m].ok =>
                /\ Cardinality({u \in CallsOf("update_storage") : u > m})
                      = Len(all_intervals)
                /\ \E s \in CallsOf("save_storage") : s > m

\* both fetches of the cycle succeeded and fewer candles than the pivot window
\* closed before the last confirmed candle
ShortHistory ==
    /\ Len(log) >= 2
    /\ log[1] = Call("get_last_confirmed_candle", TRUE)
    /\ log[2] = Call("get_candles", TRUE)
    /\ Cardinality({k \in 1..Len(candles) : candles[k].close_time < candle.timestamp})
          < fractal_window

\* C33: a cycle with fewer candles than the pivot window before the last
\* confirmed candle makes no call after the two fetches (no detection, no
\* breakout evaluation, no alert, no save, no error logged) and leaves the
\* store as it was.
C33_ShortHistorySkipped ==
    (CycleDone /\ ShortHistory) =>
        /\ log = <<Call("get_last_confirmed_candle", TRUE), Call("get_candles", TRUE)>>
        /\ storage = prev
        /\ storage_ref = "dict"
        /\ breakout = NoBreakout

\* one candle short of the window, the last confirmed candle closing above a
\* stored pivot of the base interval
C33_Witness ==
    /\ CycleDone
    /\ ShortHistory
    /\ Len(candles) = fractal_window
    /\ \E k \in 1..Len(Entry(storage, top_symbols[1], base_interval).H) :
          Entry(storage, top_symbols[1], base_interval).H[k].high < candle.close

\* the close times of the candles the last operation fetched
FetchedCloseTimes ==
    {args.fetch[p].candles[k].close_time :
        <<p, k>> \in {<<q, j>> \in (DOMAIN args.fetch) \X (1..MaxLen) :
                         args.fetch[q].ok /\ j <= Len(args.fetch[q].candles)}}

\* C39: an operation of a start that writes metadata.last_candle_close_time
\* writes the close time of a candle it fetched.
C39_CloseTimeOfFetchedCandle ==
    (pc \in {"started", "aborted", "live"}
       /\ storage["metadata"].last_candle_close_time
             # prev["metadata"].last_candle_close_time) =>
        /\ storage["metadata"].last_candle_close_time.kind = "ms"
        /\ storage["metadata"].last_candle_close_time.at \in FetchedCloseTimes

\* the call in hand was made on a pair that had no entry
FirstTouch ==
    /\ pc = "touched"
    /\ IF args.symbol \in DOMAIN prev
       THEN args.interval \notin DOMAIN prev[args.symbol]
       ELSE TRUE

\* C34: update_storage on a (symbol, interval) pair without an entry returns a
\* store whose entry for the pair holds exactly the pivots detected in the
\* batch, and in which every other entry and the metadata are as before.
C34_FirstTouchCreatesEntry ==
    FirstTouch =>
        /\ DOMAIN storage = (DOMAIN prev) \cup {args.symbol}
        /\ storage[args.symbol][args.interval] = [H |-> detected[1], L |-> detected[2]]
        /\ \A s \in (DOMAIN prev) \ {args.symbol} : storage[s] = prev[s]
        /\ IF args.symbol \in DOMAIN prev
           THEN /\ DOMAIN storage[args.symbol]
                     = (DOMAIN prev[args.symbol]) \cup {args.interval}
                /\ \A i \in DOMAIN prev[args.symbol] :
                      storage[args.symbol][i] = prev[args.symbol][i]
           ELSE DOMAIN storage[args.symbol] = {args.interval}

\* a first call for the second interval of a symbol whose first interval
\* holds pivots, the batch holding a pivot, next to another stored symbol
C34_Witness ==
    /\ FirstTouch
    /\ args.symbol \in DOMAIN prev
    /\ \E i \in DOMAIN prev[args.symbol] : prev[args.symbol][i].H # <<>>
    /\ (DOMAIN prev) \ {args.symbol, "metadata"} # {}
    /\ detected[1] # <<>>

\* the open time a response candle carries
HasOpenTime(c) == c.time # Null \/ c.openTime # Null
OpenTimeOf(c) == IF c.time # Null THEN c.time.at ELSE c.openTime.at

\* C35: for a response of two or more candles get_last_confirmed_candle
\* returns the second-to-last candle's prices with the timestamp open time +
\* interval seconds * 1000; for a response of fewer than two candles it raises
\* and returns no candle.
C35_SecondToLastCandle ==
    pc = "answered" =>
        IF Len(candles) < 2
        THEN args.raised /\ candle = NoCandle
        ELSE LET c == candles[Len(candles) - 1]
             IN  HasOpenTime(c) =>
                    /\ ~args.raised
                    /\ candle.timestamp
                          = OpenTimeOf(c) + interval_map[args.interval] * 1000
                    /\ candle.open = c.open
                    /\ candle.high = c.high
                    /\ candle.low = c.low
                    /\ candle.close = c.close
                    /\ candle.symbol = top_symbols[1]
                    /\ candle.interval = args.interval

\* a full response on the 1h interval whose forming candle differs in every
\* price from the closed one before it, which carries "openTime"
C35_Witness ==
    /\ pc = "answered"
    /\ Len(candles) = confirmed_limit
    /\ args.interval = "1h"
    /\ ~args.raised
    /\ candles[2].openTime # Null
    /\ candles[3].high # candles[2].high
    /\ candles[3].close # candles[2].close
    /\ candle.close = candles[2].close

\* the store holds the tracked pivot for the higher interval
HoldsTracked ==
    LET e == Entry(storage, top_symbols[1], higher_intervals[1])
        list == IF tracked.side = "H" THEN e.H ELSE e.L
    IN  \E k \in 1..Len(list) :
           /\ list[k].time = tracked.time
           /\ ValueOf(list[k], tracked.side) = tracked.value

\* C36: after the update_storage calls that follow handle_htf_match, the
\* store does not hold the higher-interval pivot that was removed as matched.
C36_ConsumedStaysOut ==
    (pc = "reconciled" /\ tracked # NoTrack) => ~HoldsTracked

\* C37: after each update_storage call of a sequence on contiguous windows
\* of one series with non-decreasing ends, no candle that was in a batch so
\* far and closed after a stored pivot has a high above a stored High pivot
\* or a low below a stored Low pivot.
C37_StoredPivotsUnbroken ==
    pc = "windowed" =>
        LET e == Entry(storage, top_symbols[1], base_interval)
        IN  \A i \in Seen(todo) :
               /\ \A k \in 1..Len(e.H) :
                     candles[i].close_time > e.H[k].time
                        => candles[i].high <= e.H[k].high
               /\ \A k \in 1..Len(e.L) :
                     candles[i].close_time > e.L[k].time
                        => candles[i].low >= e.L[k].low

\* the second call, on a window that begins after the first one's pivot,
\* removed a stored High pivot as broken and the store still holds a pivot
C37_Witness ==
    /\ pc = "windowed"
    /\ Len(todo) >= 2
    /\ todo[Len(todo)][1] > todo[1][1] + 1
    /\ \E k \in 1..Len(Entry(prev, top_symbols[1], base_interval).H) :
          Entry(prev, top_symbols[1], base_interval).H[k]
             \notin Range(Entry(storage, top_symbols[1], base_interval).H)
    /\ Entry(storage, top_symbols[1], base_interval).H # <<>>

\* the pivot a breakout names
PivotOf(bo) ==
    [side |-> bo.fractal_side, time |-> bo.fractal_time, value |-> bo.fractal_value]

\* C38: the pivot a cycle reports in a breakout was reported by none of the
\* earlier cycles of the run.
C38_ReportedOnce ==
    (breakout # NoBreakout) =>
        \A k \in 1..Len(todo) : PivotOf(todo[k]) # PivotOf(breakout)

\* a second breakout while the candle of the pivot reported first and the
\* candle that broke it are still in the fetched history
C38_Witness ==
    /\ breakout # NoBreakout
    /\ todo # <<>>
    /\ \E k \in 1..Len(candles) : candles[k].close_time = todo[1].candle_time
    /\ \E k \in 1..Len(candles) : candles[k].close_time = todo[1].fractal_time

\* C40: the batch a get returns was fetched in the cycle in which the get is
\* made.
C40_CachePerCycle ==
    (args.op = "get" /\ args.cycle = ops) => args.fetched_in = args.cycle

====
